---- MODULE Spec2Model ----
(***************************************************************************)
(* Semantic memory store of Pine_BOT: the namespaced vector index, the     *)
(* similarity classifier (check_similarity), the smart upsert              *)
(* (smart_upsert_text), MemoryManager.save / save_doc_index / retrieve /   *)
(* list_indexed_documents, and the namespace-wide clear.                   *)
(*                                                                         *)
(* Scores are fixed-point numbers in units of 1e-4 (0.80 is 8000).         *)
(* The specifications share the variables:                                 *)
(*   Spec      worker threads whose saves interleave at the index calls    *)
(*   SpecSeq   the same calls, each running to completion (no overlap)     *)
(*   SpecNs    the writes on the records of two users, one at a time       *)
(*   SpecDedup saves with the duplicate check in one namespace             *)
(*   SpecRead  one call against an index populated by earlier saves        *)
(*   SpecBig   one read against a namespace of about fifty records         *)
(*   SpecDocs  passport upserts, one at a time, with deletes               *)
(*   SpecBatch batch saves (smart_upsert_documents), one at a time         *)
(*   SpecIngest the ingestion of uploaded documents, chunk by chunk        *)
(*   SpecUpload the same ingestion with no deletes in between              *)
(*   SpecLife  every kind of call on one namespace, with explicit deletes  *)
(*   SpecFormat format_for_context applied to a list of retrieved records  *)
(*   SpecChat  text messages handled by the worker threads, and /clear     *)
(* A definition introduced as a "faulty variant" is not the program: it is *)
(* the definition that follows it with one plausible slip, kept to show    *)
(* that the properties tell the two apart.                                 *)
(***************************************************************************)
EXTENDS Integers, Sequences, FiniteSets, TLC

VARIABLES
  index,   \* the Pinecone index: namespace -> (id -> [values, metadata])
  now,     \* the wall clock in whole seconds, int(time.time())
  pc,      \* per worker thread: idle, or a smart_upsert_text call in flight
  calls,   \* number of write calls started so far (bounded by MaxCalls)
  last,    \* the call that returned most recently, with what it returned
  histories \* BotHandlers._histories: per user, the session history (a deque)

vars == <<index, now, pc, calls, last, histories>>

----------------------------------------------------------------------------
(* Bounds of the model *)

MaxCalls == 2

MaxTime == 2

MaxSeqCalls == 2

\* most documents in one smart_upsert_documents call (SpecBatch)
MaxBatch == 3

\* most records passed to format_for_context (SpecFormat)
MaxMemories == 3

\* most records held by one namespace of the long-lived indexes (SpecBig)
MaxRecords == 51

----------------------------------------------------------------------------
(* Program constants *)

SIMILARITY_THRESHOLD_HIGH == 8000

SIMILARITY_THRESHOLD_LOW == 7500

SCORE_THRESHOLD == 3000

CHECK_TOP_K == 5

ALL_TOP_K == 50

\* None passed for a threshold, a score or an id
NoneNum == -20000

NoneStr == "None"

NoneId == <<0, "None", 0>>

----------------------------------------------------------------------------
(* Inputs *)

Users == {1, 2}

\* self._histories = {}: no user has a session history
NoHistory == [present |-> FALSE, entries |-> <<>>]

NoHistories == [u \in Users |-> NoHistory]

Threads == {1, 2}

\* texts that users send and that are stored
StoredTexts == {"a", "a1", "a2", "b"}

\* texts used only as queries
QueryTexts == {"q", "q0"}

Filenames == {"f1", "f2"}

\* the text of a document passport, f"Загружен документ: {filename}"
PassportText(filename) == "doc:" \o filename

\* the fixed query of _retrieve_all and of list_indexed_documents
BroadQueryText == "broad"

DocListQueryText == "doclist"

\* The similarity the index reports for two embedded texts (cosine metric).
\* a/a1 sit exactly on the high threshold, a/a2 just below it, a1/a2 exactly
\* on the low threshold, a/b just below it; q scores 0.9, 0.5, 0.31, 0.29
\* against the four stored texts and q0 exactly 0.30 against a.
ScoreTable ==
  ({"a", "a1"} :> 8000) @@ ({"a", "a2"} :> 7999) @@ ({"a1", "a2"} :> 7500) @@
  ({"a", "b"} :> 7499) @@ ({"a1", "b"} :> 2000) @@ ({"a2", "b"} :> 1500) @@
  ({"q", "a"} :> 9000) @@ ({"q", "a1"} :> 5000) @@ ({"q", "a2"} :> 3100) @@
  ({"q", "b"} :> 2900) @@ ({"q0", "a"} :> 3000) @@ ({"q0", "a1"} :> 3001) @@
  ({"q0", "a2"} :> 2999) @@ ({"q0", "b"} :> 500) @@
  ({"q", "doc:f1"} :> 4000) @@ ({"q", "doc:f2"} :> 3500) @@
  ({"doc:f1", "doc:f2"} :> 8500) @@
  ({"doclist", "doc:f1"} :> 6000) @@ ({"doclist", "doc:f2"} :> 5900) @@
  ({"broad", "a"} :> 2500) @@ ({"broad", "a1"} :> 2400) @@
  ({"broad", "a2"} :> 2300) @@ ({"broad", "b"} :> 100) @@
  ({"broad", "doc:f1"} :> 4500) @@ ({"broad", "doc:f2"} :> 4400)

\* str(n) of a non-negative integer: its decimal digits
Digits == <<"0", "1", "2", "3", "4", "5", "6", "7", "8", "9">>

RECURSIVE Str(_)
Str(n) == IF n < 10 THEN Digits[n + 1] ELSE Str(n \div 10) \o Digits[(n % 10) + 1]

DefaultScore == 1000

\* the i-th of the notes one user sent over time, one per clock second
NoteText(i) == "n" \o Str(i)

NoteNo == [t \in {NoteText(i) : i \in 1 .. MaxRecords + 1} |->
             CHOOSE i \in 1 .. MaxRecords + 1 : t = NoteText(i)]

\* what a note scores against any other text: low, and different for each note
NoteScore(t) == 2000 - NoteNo[t]

SelfScore == 10000

\* get_embedding: the embedding is a function of the text alone
get_embedding(text) == <<"emb", text>>

\* cosine similarity of two embeddings, as the index scores a match
Cosine(v, w) ==
  IF v[2] = w[2] THEN SelfScore
  ELSE IF {v[2], w[2]} \in DOMAIN ScoreTable THEN ScoreTable[{v[2], w[2]}]
  ELSE IF v[2] \in DOMAIN NoteNo /\ w[2] \notin DOMAIN NoteNo THEN NoteScore(v[2])
  ELSE IF w[2] \in DOMAIN NoteNo /\ v[2] \notin DOMAIN NoteNo THEN NoteScore(w[2])
  ELSE DefaultScore

----------------------------------------------------------------------------
(* Namespaces and ids *)

\* MemoryManager.get_namespace: f"user_{user_id}"
get_namespace(user_id) == "user_" \o Str(user_id)

Namespaces == {get_namespace(u) : u \in Users}

\* f"{user_id}_{memory_type}_{timestamp}"
TimestampId(user_id, memory_type, timestamp) == <<user_id, memory_type, timestamp>>

\* hashlib.md5(filename.encode()).hexdigest(): 32 hex characters, so never
\* the decimal rendering of a clock value; distinct for the filenames used
Md5(filename) == IF filename = "f1" THEN 1001 ELSE 1002

\* f"{user_id}_doc_index_{md5}"
PassportId(user_id, filename) == <<user_id, "doc_index", Md5(filename)>>

\* ids a direct caller of PineconeManager passes ("memory_1", "memory_2")
DirectIds == {<<0, "memory", 1>>, <<0, "memory", 2>>}

----------------------------------------------------------------------------
(* The vector index (self.index) *)

EmptyNamespace == [i \in {} |-> i]

EmptyIndex == [ns \in Namespaces |-> EmptyNamespace]

Ids(idx, ns) == DOMAIN idx[ns]

\* faulty variant of IndexUpsert: the namespace keeps only the record just written
IndexUpsertEvicting(idx, ns, id, values, metadata) ==
  [idx EXCEPT ![ns] = (id :> [values |-> values, metadata |-> metadata])]

\* index.upsert(vectors=[(id, values, metadata)], namespace): replaces the id
IndexUpsert(idx, ns, id, values, metadata) ==
  [idx EXCEPT ![ns] = (id :> [values |-> values, metadata |-> metadata]) @@ @]

\* faulty variant of IndexUpdate: the metadata is replaced, not merged
IndexUpdateAllFields(idx, ns, id, metadata) ==
  IF id \in DOMAIN idx[ns]
  THEN [idx EXCEPT ![ns] = (id :> [values |-> @[id].values, metadata |-> metadata]) @@ @]
  ELSE idx

\* index.update(id, set_metadata, namespace): the given fields are added or
\* overwritten, the others and the vector are kept; an absent id is left absent
IndexUpdate(idx, ns, id, metadata) ==
  IF id \in DOMAIN idx[ns]
  THEN [idx EXCEPT ![ns] =
          (id :> [values |-> @[id].values, metadata |-> metadata @@ @[id].metadata]) @@ @]
  ELSE idx

\* faulty variant of IndexDeleteAll: the namespace argument is ignored
IndexDeleteEverywhere(idx, ns) == [n \in DOMAIN idx |-> EmptyNamespace]

\* index.delete(delete_all=True, namespace)
IndexDeleteAll(idx, ns) == [idx EXCEPT ![ns] = EmptyNamespace]

\* a metadata filter {"key": {"$eq": value}}; NoFilter is filter=None
NoFilter == <<>>

TypeFilter(t) == <<"type", t>>

PassesFilter(rec, flt) ==
  \/ flt = NoFilter
  \/ /\ flt[1] \in DOMAIN rec.metadata
     /\ rec.metadata[flt[1]] = flt[2]

\* faulty variant of QueryScope: the query is not confined to its namespace
QueryAllNamespaces(idx, ns, flt) ==
  UNION {{[ns |-> n, id |-> id] : id \in {i \in DOMAIN idx[n] : PassesFilter(idx[n][i], flt)}}
         : n \in DOMAIN idx}

\* the records a query of namespace ns can match
QueryScope(idx, ns, flt) ==
  {[ns |-> ns, id |-> id] : id \in {i \in DOMAIN idx[ns] : PassesFilter(idx[ns][i], flt)}}

\* the score of a candidate against the query vector
ScoreOf(idx, vector, c) == Cosine(vector, idx[c.ns][c.id].values)

\* one entry of "matches"
MatchOf(idx, vector, c) ==
  [id |-> c.id, score |-> ScoreOf(idx, vector, c),
   metadata |-> idx[c.ns][c.id].metadata]

\* every order of the candidates by descending score (ties in any order)
RECURSIVE Rankings(_, _, _)
Rankings(idx, vector, cands) ==
  IF cands = {} THEN {<<>>}
  ELSE LET best == {c \in cands :
                      \A d \in cands : ScoreOf(idx, vector, c) >= ScoreOf(idx, vector, d)}
       IN UNION {{<<MatchOf(idx, vector, c)>> \o r : r \in Rankings(idx, vector, cands \ {c})}
                 : c \in best}

Take(s, n) == SubSeq(s, 1, IF Len(s) < n THEN Len(s) ELSE n)

\* index.query(vector, top_k, namespace, filter, include_metadata=True):
\* the possible "matches" lists
IndexQuery(idx, vector, top_k, ns, flt) ==
  {Take(r, top_k) : r \in Rankings(idx, vector, QueryScope(idx, ns, flt))}

----------------------------------------------------------------------------
(* PineconeManager: classifier and smart upsert (memory/store.py) *)

ThresholdPairs ==
  {<<NoneNum, NoneNum>>, <<9500, 8500>>, <<7500, 2000>>}

\* faulty variant of Classify: the thresholds are compared with > instead of >=
ClassifyStrict(matches, high, low) ==
  IF matches = <<>> THEN [status |-> "new", match |-> <<>>]
  ELSE IF matches[1].score > high THEN [status |-> "duplicate", match |-> <<matches[1]>>]
  ELSE IF matches[1].score >= low THEN [status |-> "similar", match |-> <<matches[1]>>]
  ELSE [status |-> "new", match |-> <<matches[1]>>]

\* check_similarity, after the query: the status and the best match (<<>> is None)
Classify(matches, high, low) ==
  IF matches = <<>> THEN [status |-> "new", match |-> <<>>]
  ELSE IF matches[1].score >= high THEN [status |-> "duplicate", match |-> <<matches[1]>>]
  ELSE IF matches[1].score >= low THEN [status |-> "similar", match |-> <<matches[1]>>]
  ELSE [status |-> "new", match |-> <<matches[1]>>]

\* threshold_high if threshold_high is not None else SIMILARITY_THRESHOLD_HIGH
High(threshold_high) ==
  IF threshold_high # NoneNum THEN threshold_high ELSE SIMILARITY_THRESHOLD_HIGH

Low(threshold_low) ==
  IF threshold_low # NoneNum THEN threshold_low ELSE SIMILARITY_THRESHOLD_LOW

\* check_similarity: the outcomes the index's answer allows
check_similarity(idx, text, ns, top_k, flt, threshold_high, threshold_low) ==
  {Classify(m, High(threshold_high), Low(threshold_low)) :
     m \in IndexQuery(idx, get_embedding(text), top_k, ns, flt)}

\* faulty variant of upsert_text: the text is not stored in the metadata
upsert_text_without_text_field(idx, text, doc_id, metadata, ns) ==
  IndexUpsert(idx, ns, doc_id, get_embedding(text), metadata)

\* upsert_text: the text is embedded and stored in the metadata
upsert_text(idx, text, doc_id, metadata, ns) ==
  IndexUpsert(idx, ns, doc_id, get_embedding(text), ("text" :> text) @@ metadata)

\* update_metadata
update_metadata(idx, doc_id, metadata, ns) == IndexUpdate(idx, ns, doc_id, metadata)

\* the arguments of one smart_upsert_text call
SmartCall(text, doc_id, metadata, ns, cd, merge, th, tl, flt) ==
  [text |-> text, doc_id |-> doc_id, metadata |-> metadata, namespace |-> ns,
   check_duplicates |-> cd, update_if_duplicate |-> merge,
   threshold_high |-> th, threshold_low |-> tl, filter_dict |-> flt]

\* no classification was made (check_duplicates is false)
NoClass == [status |-> NoneStr, match |-> <<>>]

\* faulty variant of SmartClassify: the duplicate check runs whatever check_duplicates says
SmartClassifyAlways(idx, call) ==
  {[queries |-> 1, cls |-> c] :
     c \in check_similarity(idx, call.text, call.namespace, CHECK_TOP_K,
                            call.filter_dict, call.threshold_high, call.threshold_low)}

\* smart_upsert_text, lines 339-346: the classification, made only when
\* check_duplicates is set; queries counts the index queries issued
SmartClassify(idx, call) ==
  IF call.check_duplicates
  THEN {[queries |-> 1, cls |-> c] :
          c \in check_similarity(idx, call.text, call.namespace, CHECK_TOP_K,
                                 call.filter_dict, call.threshold_high, call.threshold_low)}
  ELSE {[queries |-> 0, cls |-> NoClass]}

\* faulty variant of SmartResult: score and matched id are filled in only for a duplicate
SmartResultDuplicateOnly(call, cls) ==
  [action |-> NoneStr,
   doc_id |-> call.doc_id,
   similarity_status |-> cls.status,
   similarity_score |-> IF cls.status = "duplicate" /\ cls.match # <<>>
                        THEN cls.match[1].score ELSE NoneNum,
   matched_id |-> IF cls.status = "duplicate" /\ cls.match # <<>>
                  THEN cls.match[1].id ELSE NoneId]

\* smart_upsert_text, lines 331-337 and 347-350: the result dict
SmartResult(call, cls) ==
  [action |-> NoneStr,
   doc_id |-> call.doc_id,
   similarity_status |-> cls.status,
   similarity_score |-> IF cls.match # <<>> THEN cls.match[1].score ELSE NoneNum,
   matched_id |-> IF cls.match # <<>> THEN cls.match[1].id ELSE NoneId]

\* faulty variant of SmartWrite: the classification is ignored and the record is written
SmartWriteAlwaysCreate(idx, call, cls) ==
  [index |-> upsert_text(idx, call.text, call.doc_id, call.metadata, call.namespace),
   result |-> [SmartResult(call, cls) EXCEPT !.action = "created"]]

\* faulty variant of SmartWrite: a merge is written under the caller's id
SmartWriteMergeUnderCallerId(idx, call, cls) ==
  IF cls.status = "duplicate" /\ call.update_if_duplicate /\ cls.match # <<>>
  THEN [index |-> upsert_text(idx, call.text, call.doc_id, call.metadata, call.namespace),
        result |-> [SmartResult(call, cls) EXCEPT !.action = "updated"]]
  ELSE IF cls.status = "duplicate"
  THEN [index |-> idx, result |-> [SmartResult(call, cls) EXCEPT !.action = "skipped"]]
  ELSE [index |-> upsert_text(idx, call.text, call.doc_id, call.metadata, call.namespace),
        result |-> [SmartResult(call, cls) EXCEPT !.action = "created"]]

\* faulty variant of SmartWrite: a skipped duplicate still updates the matched record
SmartWriteSkipWrites(idx, call, cls) ==
  IF cls.status = "duplicate"
  THEN [index |-> IF cls.match # <<>>
                  THEN update_metadata(idx, cls.match[1].id,
                                       ("text" :> call.text) @@ call.metadata, call.namespace)
                  ELSE idx,
        result |-> [SmartResult(call, cls) EXCEPT !.action = "skipped"]]
  ELSE [index |-> upsert_text(idx, call.text, call.doc_id, call.metadata, call.namespace),
        result |-> [SmartResult(call, cls) EXCEPT !.action = "created"]]

\* smart_upsert_text, lines 352-372: merge, skip or create, and the result
SmartWrite(idx, call, cls) ==
  IF cls.status = "duplicate"
  THEN IF call.update_if_duplicate /\ cls.match # <<>>
       THEN [index |-> update_metadata(idx, cls.match[1].id,
                                       ("text" :> call.text) @@ call.metadata,
                                       call.namespace),
             result |-> [SmartResult(call, cls) EXCEPT
                           !.action = "updated", !.doc_id = cls.match[1].id]]
       ELSE [index |-> idx,
             result |-> [SmartResult(call, cls) EXCEPT !.action = "skipped"]]
  ELSE [index |-> upsert_text(idx, call.text, call.doc_id, call.metadata, call.namespace),
        result |-> [SmartResult(call, cls) EXCEPT !.action = "created"]]

----------------------------------------------------------------------------
(* MemoryManager.save and save_doc_index (memory/manager.py) *)

\* metadata the callers pass: _on_text passes the username, ingestion the
\* chunk's locators, a direct caller of PineconeManager its own fields
MessageMetadata == ("username" :> "name")

ChunkMetadata(filename) ==
  ("filename" :> filename) @@ ("chunk_index" :> 0) @@ ("page_no" :> 1) @@
  ("headings" :> "h")

DirectMetadata == ("user_id" :> 0) @@ ("category" :> "preferences")

CallerMetadata(memory_type) ==
  IF memory_type = "doc_chunk" THEN ChunkMetadata("f1") ELSE MessageMetadata

\* save, lines 146-157: the namespace, the metadata and the record id
SaveCall(user_id, text, memory_type, metadata, cd, doc_id, clock) ==
  SmartCall(text,
            IF doc_id # NoneId THEN doc_id ELSE TimestampId(user_id, memory_type, clock),
            ("user_id" :> user_id) @@ ("type" :> memory_type) @@
              ("timestamp" :> clock) @@ ("datetime" :> clock) @@ metadata,
            get_namespace(user_id), cd, TRUE, NoneNum, NoneNum, NoFilter)

\* faulty variant of DocIndexCall: no doc_id is passed, so save generates one from the clock
DocIndexCallTimestampId(user_id, filename, chunk_count, clock) ==
  SaveCall(user_id, PassportText(filename), "doc_index",
           ("filename" :> filename) @@ ("chunk_count" :> chunk_count),
           FALSE, NoneId, clock)

\* save_doc_index: the call it makes to save
DocIndexCall(user_id, filename, chunk_count, clock) ==
  SaveCall(user_id, PassportText(filename), "doc_index",
           ("filename" :> filename) @@ ("chunk_count" :> chunk_count),
           FALSE, PassportId(user_id, filename), clock)

\* save's except clause: {"action": "error", "error": str(exc)}
ErrorResult == [action |-> "error"]

NoResult == [action |-> NoneStr]

\* faulty variant of Returned: the except clause hands back the result dict built so far
ReturnedSwallowsFailure(via, ok, result) ==
  IF via = "save_doc_index" THEN [outcome |-> "returned", result |-> NoResult]
  ELSE [outcome |-> "returned", result |-> result]

\* what the outermost call hands back: smart_upsert_text returns its result
\* or raises; save turns the exception into action=error; save_doc_index
\* returns None whatever save returned
Returned(via, ok, result) ==
  IF via = "save_doc_index" THEN [outcome |-> "returned", result |-> NoResult]
  ELSE IF ok THEN [outcome |-> "returned", result |-> result]
  ELSE IF via = "save" THEN [outcome |-> "returned", result |-> ErrorResult]
  ELSE [outcome |-> "raised", result |-> NoResult]

----------------------------------------------------------------------------
(* PineconeManager.delete *)

\* delete(ids, delete_all, namespace, filter_dict): the first branch that applies
delete(idx, ids, delete_all, ns, flt) ==
  IF delete_all THEN IndexDeleteAll(idx, ns)
  ELSE IF ids # {} THEN
    [idx EXCEPT ![ns] = [i \in (DOMAIN @) \ ids |-> @[i]]]
  ELSE IF flt # NoFilter THEN
    [idx EXCEPT ![ns] = [i \in {j \in DOMAIN @ : ~PassesFilter(@[j], flt)} |-> @[i]]]
  ELSE idx

\* the delete calls made: the namespace-wide clear of _on_clear_callback, one
\* id, or the passports by filter
DeleteArgs(idx, ns) ==
  {[ids |-> {}, delete_all |-> TRUE, flt |-> NoFilter],
   [ids |-> {}, delete_all |-> FALSE, flt |-> TypeFilter("doc_index")]}
  \cup {[ids |-> {i}, delete_all |-> FALSE, flt |-> NoFilter] : i \in DOMAIN idx[ns]}

----------------------------------------------------------------------------
(* Worker threads: calls that interleave at the index *)

Idle == [stage |-> "idle"]

NoLast == [op |-> "none"]

\* a call that has classified and not yet written; overlapped records whether
\* another call wrote to its namespace since its classification query
Pending(via, call, p) ==
  [stage |-> "classified", via |-> via, call |-> call, cls |-> p.cls,
   queries |-> p.queries, overlapped |-> FALSE]

\* threads other than th that have classified against namespace ns see it change
MarkOverlapped(pcs, th, ns, changed) ==
  [t \in Threads |->
     IF t # th /\ changed /\ pcs[t].stage = "classified" /\ pcs[t].call.namespace = ns
     THEN [pcs[t] EXCEPT !.overlapped = TRUE]
     ELSE IF t = th THEN Idle ELSE pcs[t]]

UpsertReturn(via, call, queries, overlapped, ok, result) ==
  [op |-> "smart_upsert_text", via |-> via, call |-> call, queries |-> queries,
   overlapped |-> overlapped, ok |-> ok,
   outcome |-> Returned(via, ok, result).outcome,
   result |-> Returned(via, ok, result).result]

\* the write of a smart_upsert_text call (update_metadata or upsert_text)
\* and its return; ok is whether the embedding and index calls succeed
WriteAndReturn(th, via, call, p, overlapped, ok) ==
  LET w == SmartWrite(index, call, p.cls) IN
  /\ index' = IF ok THEN w.index ELSE index
  /\ pc' = MarkOverlapped(pc, th, call.namespace, ok /\ w.index # index)
  /\ last' = UpsertReturn(via, call, p.queries, overlapped, ok, w.result)

\* the pool hands a call to a free worker; which one is immaterial, so the
\* lowest-numbered idle thread takes it
FreeThread(th) ==
  /\ pc[th] = Idle
  /\ \A t \in Threads : t < th => pc[t] # Idle

\* smart_upsert_text up to its first index call: the classification query
\* when check_duplicates is set, else the write itself
StartCall(th, via, call) ==
  /\ FreeThread(th)
  /\ \E ok \in BOOLEAN : \E p \in SmartClassify(index, call) :
       IF p.queries = 0
       THEN WriteAndReturn(th, via, call, p, FALSE, ok)
       ELSE /\ index' = index
            /\ IF ok
               THEN /\ pc' = [pc EXCEPT ![th] = Pending(via, call, p)]
                    /\ last' = last
               ELSE /\ pc' = pc
                    /\ last' = UpsertReturn(via, call, p.queries, FALSE, FALSE, NoResult)

\* the saves the callers make: _on_text saves a message with the duplicate
\* check, ingestion saves a chunk without it
SaveKinds == {<<"message", TRUE>>, <<"doc_chunk", FALSE>>}

\* MemoryManager.save called by a worker thread
Save(th, user_id, text, kind) ==
  /\ calls < MaxCalls
  /\ calls' = calls + 1
  /\ histories' = histories
  /\ now' = now
  /\ StartCall(th, "save",
               SaveCall(user_id, text, kind[1], CallerMetadata(kind[1]),
                        kind[2], NoneId, now))

\* MemoryManager.save_doc_index called by a worker thread
SaveDocIndex(th, user_id, filename, chunk_count) ==
  /\ calls < MaxCalls
  /\ calls' = calls + 1
  /\ histories' = histories
  /\ now' = now
  /\ StartCall(th, "save_doc_index", DocIndexCall(user_id, filename, chunk_count, now))

\* PineconeManager.smart_upsert_text called directly
DirectUpsert(th, ns, text, doc_id, merge, thr, flt) ==
  /\ calls < MaxCalls
  /\ calls' = calls + 1
  /\ histories' = histories
  /\ now' = now
  /\ StartCall(th, "direct",
               SmartCall(text, doc_id, DirectMetadata, ns, TRUE, merge,
                         thr[1], thr[2], flt))

\* the write step of a call that has classified
Finish(th) ==
  /\ pc[th].stage = "classified"
  /\ \E ok \in BOOLEAN :
       WriteAndReturn(th, pc[th].via, pc[th].call,
                      [queries |-> pc[th].queries, cls |-> pc[th].cls],
                      pc[th].overlapped, ok)
  /\ UNCHANGED <<now, calls, histories>>

\* PineconeManager.delete
Delete(ns, args) ==
  /\ index' = delete(index, args.ids, args.delete_all, ns, args.flt)
  /\ pc' = [t \in Threads |->
              IF index' # index /\ pc[t].stage = "classified" /\ pc[t].call.namespace = ns
              THEN [pc[t] EXCEPT !.overlapped = TRUE] ELSE pc[t]]
  /\ last' = [op |-> "delete", namespace |-> ns, args |-> args]
  /\ UNCHANGED <<now, calls, histories>>

\* a second passes
Tick ==
  /\ now < MaxTime
  /\ now' = now + 1
  /\ UNCHANGED <<index, pc, calls, histories, last>>

Init ==
  /\ index = EmptyIndex
  /\ now = 1
  /\ pc = [th \in Threads |-> Idle]
  /\ calls = 0
  /\ histories = NoHistories
  /\ last = NoLast

DirectTexts == {"a", "a1"}

DirectInputs ==
  {<<ns, text, id, merge, thr, flt>> :
     ns \in {get_namespace(1)}, text \in DirectTexts, id \in {<<0, "memory", 1>>},
     merge \in {FALSE}, thr \in {<<NoneNum, NoneNum>>}, flt \in {NoFilter}}

Next ==
  \/ \E th \in Threads, u \in Users, text \in StoredTexts, k \in SaveKinds :
       Save(th, u, text, k)
  \/ \E th \in Threads, u \in Users, f \in {"f1"}, n \in {1, 2} :
       SaveDocIndex(th, u, f, n)
  \/ \E th \in Threads, d \in DirectInputs :
       DirectUpsert(th, d[1], d[2], d[3], d[4], d[5], d[6])
  \/ \E th \in Threads : Finish(th)
  \/ \E ns \in Namespaces : Delete(ns, [ids |-> {}, delete_all |-> TRUE, flt |-> NoFilter])
  \/ Tick

Spec == Init /\ [][Next]_vars

----------------------------------------------------------------------------
(* The same calls, each running to completion before the next starts *)

\* one smart_upsert_text call from entry to return: ok1 is whether the
\* classification succeeds, ok2 whether the write does
SeqCall(via, call) ==
  /\ calls < MaxSeqCalls
  /\ calls' = calls + 1
  /\ histories' = histories
  /\ now' = now
  /\ \E p \in SmartClassify(index, call) : \E ok1, ok2 \in BOOLEAN :
       IF p.queries > 0 /\ ~ok1
       THEN /\ index' = index
            /\ pc' = pc
            /\ last' = UpsertReturn(via, call, p.queries, FALSE, FALSE, NoResult)
       ELSE WriteAndReturn(0, via, call, p, FALSE, ok2)

SeqSave(user_id, text, kind) ==
  SeqCall("save", SaveCall(user_id, text, kind[1], CallerMetadata(kind[1]),
                           kind[2], NoneId, now))

SeqSaveDocIndex(user_id, filename, chunk_count) ==
  SeqCall("save_doc_index", DocIndexCall(user_id, filename, chunk_count, now))

SeqDirectUpsert(ns, text, doc_id, merge, thr, flt) ==
  /\ calls < MaxSeqCalls
  /\ SeqCall("direct", SmartCall(text, doc_id, DirectMetadata, ns, TRUE, merge,
                                 thr[1], thr[2], flt))

SeqSaveTexts == {"a", "a1", "a2"}

SeqDirectInputs ==
  {<<ns, text, id, merge, thr, flt>> :
     ns \in {get_namespace(1)}, text \in {"a1"}, id \in {<<0, "memory", 1>>},
     merge \in BOOLEAN, thr \in {<<NoneNum, NoneNum>>, <<9500, 8500>>},
     flt \in {NoFilter, TypeFilter("message")}}

NextSeq ==
  \/ \E u \in Users, text \in SeqSaveTexts, k \in SaveKinds : SeqSave(u, text, k)
  \/ \E u \in Users, f \in {"f1"}, n \in {1, 2} : SeqSaveDocIndex(u, f, n)
  \/ \E d \in SeqDirectInputs : SeqDirectUpsert(d[1], d[2], d[3], d[4], d[5], d[6])
  \/ \E ns \in Namespaces : \E args \in DeleteArgs(index, ns) : Delete(ns, args)
  \/ Tick

SpecSeq == Init /\ [][NextSeq]_vars

\* The writes that touch one user's records, for two users: the message save
\* of _on_text (it creates or merges), the passport upsert of ingestion and
\* the namespace-wide clear of _on_clear_callback
ClearArgs == [ids |-> {}, delete_all |-> TRUE, flt |-> NoFilter]

NextNs ==
  \/ \E u \in Users, text \in {"a", "a1", "b"} : SeqSave(u, text, <<"message", TRUE>>)
  \/ \E u \in Users, n \in {1, 2} : SeqSaveDocIndex(u, "f1", n)
  \/ \E ns \in Namespaces : Delete(ns, ClearArgs)
  \/ Tick

SpecNs == Init /\ [][NextNs]_vars

\* Saves with the duplicate check in one namespace, one after the other:
\* message saves of one user and direct smart_upsert_text calls with their
\* own ids, thresholds, merge flag and metadata filter
DedupInputs ==
  {<<ns, text, id, merge, thr, flt>> :
     ns \in {get_namespace(1)}, text \in {"a1"}, id \in DirectIds,
     merge \in BOOLEAN, thr \in {<<NoneNum, NoneNum>>, <<9500, 8500>>},
     flt \in {NoFilter, TypeFilter("message")}}

NextDedup ==
  \/ \E text \in StoredTexts : SeqSave(1, text, <<"message", TRUE>>)
  \/ \E d \in DedupInputs : SeqDirectUpsert(d[1], d[2], d[3], d[4], d[5], d[6])
  \/ Tick

SpecDedup == Init /\ [][NextDedup]_vars

----------------------------------------------------------------------------
(* MemoryManager.retrieve, _retrieve_all, list_indexed_documents *)

\* The characters of the query texts (the stored texts hold no trigger).
\* Cyrillic is written in Latin letters: "q" and "q0" are ordinary
\* questions, "qall" is "Chto ty znaesh OBO MNE?", "qpref" is "moi predpochteniya"
Chars(text) ==
  IF text = "qall" THEN
    <<"C","h","t","o"," ","t","y"," ","z","n","a","e","s","h"," ","O","B","O"," ","M","N","E","?">>
  ELSE IF text = "qpref" THEN
    <<"m","o","i"," ","p","r","e","d","p","o","c","h","t","e","n","i","y","a">>
  ELSE IF text = "q" THEN <<"p","i","z","z","a","?">>
  ELSE IF text = "q0" THEN <<"M","n","e"," ","o","b","o">>
  ELSE <<"t","e","x","t">>

\* str.lower() on the letters used
LowerChar(c) ==
  CASE c = "C" -> "c" [] c = "O" -> "o" [] c = "B" -> "b" [] c = "M" -> "m"
    [] c = "N" -> "n" [] c = "E" -> "e" [] OTHER -> c

Lower(s) == [i \in 1..Len(s) |-> LowerChar(s[i])]

\* phrase in s
Contains(s, phrase) ==
  \E i \in 0..(Len(s) - Len(phrase)) :
    \A j \in 1..Len(phrase) : s[i + j] = phrase[j]

\* _ALL_TRIGGERS
ALL_TRIGGERS ==
  {<<"v","s","e"," ","p","r","e","d","p","o","c","h","t","e","n","i">>,
   <<"v","s","e"," ","m","o","i"," ","p","r","e","d","p","o","c","h","t","e","n","i">>,
   <<"m","o","i"," ","p","r","e","d","p","o","c","h","t","e","n","i">>,
   <<"n","a","p","o","m","n","i"," ","m","n","e">>,
   <<"r","a","s","s","k","a","z","h","i"," ","o"," ","m","n","e">>,
   <<"c","h","t","o"," ","t","y"," ","z","n","a","e","s","h"," ","o","b","o"," ","m","n","e">>,
   <<"m","o","y","a"," ","p","a","m","y","a","t">>,
   <<"m","o","i"," ","i","n","t","e","r","e","s","y">>,
   <<"o","b","o"," ","m","n","e">>}

\* any(phrase in query.lower() for phrase in self._ALL_TRIGGERS)
HasTrigger(query) == \E phrase \in ALL_TRIGGERS : Contains(Lower(Chars(query)), phrase)

\* dict.get(key, default)
Get(d, key, default) == IF key \in DOMAIN d THEN d[key] ELSE default

\* _to_memory
to_memory(m) ==
  [text |-> Get(m.metadata, "text", ""),
   score |-> m.score,
   type |-> Get(m.metadata, "type", "message"),
   id |-> m.id,
   filename |-> Get(m.metadata, "filename", ""),
   page_no |-> Get(m.metadata, "page_no", NoneNum),
   headings |-> Get(m.metadata, "headings", "")]

Memories(matches) == [i \in 1..Len(matches) |-> to_memory(matches[i])]

\* faulty variant of NormalKeep: the score floor is compared with >=
NormalKeepInclusive(m) ==
  /\ m.score >= SCORE_THRESHOLD
  /\ Get(m.metadata, "type", NoneStr) # "doc_index"

\* retrieve, lines 94-95: the score gate and the passport exclusion
NormalKeep(m) ==
  /\ m.score > SCORE_THRESHOLD
  /\ Get(m.metadata, "type", NoneStr) # "doc_index"

\* faulty variant of AllKeep: passports are not left out
AllKeepAnyType(m) == TRUE

\* _retrieve_all, line 109
AllKeep(m) == Get(m.metadata, "type", NoneStr) # "doc_index"

\* retrieve, lines 91-96, given the matches the index returned
RetrieveNormal(matches, top_k) ==
  Take(Memories(SelectSeq(matches, NormalKeep)), top_k)

\* _retrieve_all, lines 106-110, given the matches the index returned
RetrieveAll(matches) == Memories(SelectSeq(matches, AllKeep))

\* list_indexed_documents, lines 214-225: one entry per filename, in order
RECURSIVE ListDocs(_, _)
ListDocs(matches, seen) ==
  IF matches = <<>> THEN <<>>
  ELSE LET meta == Head(matches).metadata
           fn == Get(meta, "filename", "unknown")
       IN IF fn \notin seen
          THEN <<[filename |-> fn, chunk_count |-> Get(meta, "chunk_count", 0)]>>
               \o ListDocs(Tail(matches), seen \cup {fn})
          ELSE ListDocs(Tail(matches), seen)

----------------------------------------------------------------------------
(* Read-only calls *)

\* faulty variant of Retrieve: the override path queries with the caller's top_k
RetrieveAllWithCallerTopK(user_id, query, top_k) ==
  /\ \E ok \in BOOLEAN :
       LET ns == get_namespace(user_id)
           all == HasTrigger(query)
           text == IF all THEN BroadQueryText ELSE query
       IN \E matches \in IndexQuery(index, get_embedding(text), top_k, ns, NoFilter) :
            last' = [op |-> "retrieve", user_id |-> user_id, namespace |-> ns,
                     query |-> query, top_k |-> top_k,
                     path |-> IF all THEN "all" ELSE "normal",
                     matches |-> IF ok THEN matches ELSE <<>>,
                     outcome |-> IF ok THEN "returned" ELSE "raised",
                     result |-> IF ~ok THEN <<>>
                                ELSE IF all THEN RetrieveAll(matches)
                                ELSE RetrieveNormal(matches, top_k)]
  /\ UNCHANGED <<index, now, pc, calls, histories>>

\* MemoryManager.retrieve(user_id, query, top_k); ok is whether the
\* embedding and the index query succeed (retrieve does not catch)
Retrieve(user_id, query, top_k) ==
  /\ \E ok \in BOOLEAN :
       LET ns == get_namespace(user_id)
           all == HasTrigger(query)
           text == IF all THEN BroadQueryText ELSE query
           k == IF all THEN ALL_TOP_K ELSE top_k
       IN \E matches \in IndexQuery(index, get_embedding(text), k, ns, NoFilter) :
            last' = [op |-> "retrieve", user_id |-> user_id, namespace |-> ns,
                     query |-> query, top_k |-> top_k,
                     path |-> IF all THEN "all" ELSE "normal",
                     matches |-> IF ok THEN matches ELSE <<>>,
                     outcome |-> IF ok THEN "returned" ELSE "raised",
                     result |-> IF ~ok THEN <<>>
                                ELSE IF all THEN RetrieveAll(matches)
                                ELSE RetrieveNormal(matches, top_k)]
  /\ UNCHANGED <<index, now, pc, calls, histories>>

\* faulty variant of CheckSimilarity: a text classified as new is written to the index
CheckSimilarityStoring(ns, text, top_k, flt, thr) ==
  /\ \E ok \in BOOLEAN :
       \E matches \in IndexQuery(index, get_embedding(text), top_k, ns, flt) :
         /\ last' = [op |-> "check_similarity", namespace |-> ns, text |-> text,
                     top_k |-> top_k, flt |-> flt,
                     high |-> High(thr[1]), low |-> Low(thr[2]),
                     matches |-> IF ok THEN matches ELSE <<>>,
                     outcome |-> IF ok THEN "returned" ELSE "raised",
                     result |-> IF ok THEN Classify(matches, High(thr[1]), Low(thr[2]))
                                ELSE NoClass]
         /\ index' = IF ok /\ Classify(matches, High(thr[1]), Low(thr[2])).status = "new"
                      THEN upsert_text(index, text, <<0, "memory", 1>>, DirectMetadata, ns)
                      ELSE index
  /\ UNCHANGED <<now, pc, calls, histories>>

\* PineconeManager.check_similarity called directly
CheckSimilarity(ns, text, top_k, flt, thr) ==
  /\ \E ok \in BOOLEAN :
       \E matches \in IndexQuery(index, get_embedding(text), top_k, ns, flt) :
         last' = [op |-> "check_similarity", namespace |-> ns, text |-> text,
                  top_k |-> top_k, flt |-> flt,
                  high |-> High(thr[1]), low |-> Low(thr[2]),
                  matches |-> IF ok THEN matches ELSE <<>>,
                  outcome |-> IF ok THEN "returned" ELSE "raised",
                  result |-> IF ok THEN Classify(matches, High(thr[1]), Low(thr[2]))
                             ELSE NoClass]
  /\ UNCHANGED <<index, now, pc, calls, histories>>

\* MemoryManager.list_indexed_documents(user_id): an error yields []
ListIndexedDocuments(user_id) ==
  /\ \E ok \in BOOLEAN :
       LET ns == get_namespace(user_id) IN
       \E matches \in IndexQuery(index, get_embedding(DocListQueryText), ALL_TOP_K, ns,
                                 TypeFilter("doc_index")) :
         last' = [op |-> "list_indexed_documents", user_id |-> user_id, namespace |-> ns,
                  matches |-> IF ok THEN matches ELSE <<>>,
                  outcome |-> "returned",
                  result |-> IF ok THEN ListDocs(matches, {}) ELSE <<>>]
  /\ UNCHANGED <<index, now, pc, calls, histories>>

\* Indexes to read from: any choice of records that earlier saves of the two
\* users have written (each under its own id), built with the store's writes
SeedSaves(user_id) ==
  IF user_id = 1
  THEN {SaveCall(1, "a", "message", MessageMetadata, TRUE, NoneId, 1),
        SaveCall(1, "a1", "message", MessageMetadata, TRUE, NoneId, 2),
        SaveCall(1, "a2", "doc_chunk", ChunkMetadata("f1"), FALSE, NoneId, 1),
        SaveCall(1, "b", "doc_chunk", ChunkMetadata("f1"), FALSE, NoneId, 2),
        DocIndexCall(1, "f1", 2, 2),
        DocIndexCall(1, "f2", 1, 2)}
  ELSE {SaveCall(2, "a", "message", MessageMetadata, TRUE, NoneId, 1),
        DocIndexCall(2, "f1", 1, 1)}

RECURSIVE Populate(_, _)
Populate(idx, saves) ==
  IF saves = {} THEN idx
  ELSE LET c == CHOOSE x \in saves : TRUE
       IN Populate(upsert_text(idx, c.text, c.doc_id, c.metadata, c.namespace),
                   saves \ {c})

InitRead ==
  /\ \E s1 \in SUBSET SeedSaves(1), s2 \in SUBSET SeedSaves(2) :
       index = Populate(EmptyIndex, s1 \cup s2)
  /\ now = 2
  /\ pc = [th \in Threads |-> Idle]
  /\ calls = 0
  /\ histories = NoHistories
  /\ last = NoLast

ReadQueries == {"q", "q0", "qall", "qpref", "a"}

TopKs == {1, 2, 10}

\* One call per behaviour, made on an index as populated: a read, or a save
\* run from its duplicate check to its return
FirstCall == last = NoLast

NextRead ==
  \/ \E u \in Users, query \in ReadQueries, k \in TopKs :
       FirstCall /\ Retrieve(u, query, k)
  \/ \E ns \in Namespaces, text \in StoredTexts \cup {"q"},
        flt \in {NoFilter, TypeFilter("message")}, thr \in ThresholdPairs :
       FirstCall /\ CheckSimilarity(ns, text, CHECK_TOP_K, flt, thr)
  \/ \E u \in Users : FirstCall /\ ListIndexedDocuments(u)
  \/ \E u \in Users, text \in StoredTexts, k \in SaveKinds :
       FirstCall /\ SeqSave(u, text, k)

SpecRead == InitRead /\ [][NextRead]_vars

\* Long-lived indexes: user 1 has saved one note per clock second, up to
\* MaxRecords of them, and may have ingested a document; one retrieve or
\* list_indexed_documents call is made on each
NoteSaves(k) ==
  {SaveCall(1, NoteText(i), "message", MessageMetadata, TRUE, NoneId, i) : i \in 1 .. k}

InitBig ==
  /\ \E k \in (MaxRecords - 3) .. MaxRecords, docs \in SUBSET {DocIndexCall(1, "f1", 2, 1)} :
       index = Populate(EmptyIndex, NoteSaves(k) \cup docs)
  /\ now = MaxRecords + 1
  /\ pc = [th \in Threads |-> Idle]
  /\ calls = 0
  /\ histories = NoHistories
  /\ last = NoLast

NextBig ==
  \/ \E query \in ReadQueries, k \in TopKs : FirstCall /\ Retrieve(1, query, k)
  \/ FirstCall /\ ListIndexedDocuments(1)

SpecBig == InitBig /\ [][NextBig]_vars

\* Passport upserts for two users and two filenames, one call at a time, next
\* to a message that repeats a passport's text, every kind of delete and the
\* clock
NextDocs ==
  \/ \E u \in Users, f \in Filenames, n \in {1, 2} : SeqSaveDocIndex(u, f, n)
  \/ \E u \in Users : SeqSave(u, PassportText("f1"), <<"message", TRUE>>)
  \/ \E ns \in Namespaces : \E args \in DeleteArgs(index, ns) : Delete(ns, args)
  \/ Tick

SpecDocs == Init /\ [][NextDocs]_vars

----------------------------------------------------------------------------
(* PineconeManager.smart_upsert_documents (memory/store.py) *)

BatchTexts == {"a", "a1", "b"}

\* a document of the list: {"id": ..., "text": ..., "category": "tech"}
Doc(i, text) == [id |-> <<0, "doc", i>>, text |-> text, category |-> "tech"]

\* the lists passed: up to MaxBatch documents, the i-th with id doc<i>
DocumentLists ==
  UNION {{[i \in 1 .. n |-> Doc(i, t[i])] : t \in [1 .. n -> BatchTexts]} : n \in 1 .. MaxBatch}

\* {k: v for k, v in doc.items() if k != id_field}
DocMetadata(doc) == ("text" :> doc.text) @@ ("category" :> doc.category)

\* the smart_upsert_text call made for one document of the list
DocCall(doc, ns, merge) ==
  SmartCall(doc.text, doc.id, DocMetadata(doc), ns, TRUE, merge, NoneNum, NoneNum, NoFilter)

\* stats as initialised, lines 389-395
NewStats(documents) ==
  [total |-> Len(documents), created |-> 0, updated |-> 0, skipped |-> 0, results |-> <<>>]

\* lines 410-411: the result is appended and its action counted
Counted(stats, res) ==
  [stats EXCEPT !.results = Append(@, res),
                !.created = @ + (IF res.action = "created" THEN 1 ELSE 0),
                !.updated = @ + (IF res.action = "updated" THEN 1 ELSE 0),
                !.skipped = @ + (IF res.action = "skipped" THEN 1 ELSE 0)]

\* the exception leaves smart_upsert_documents: no stats are returned
NoStats == [total |-> 0, created |-> 0, updated |-> 0, skipped |-> 0, results |-> <<>>]

\* faulty variant of BatchFrom: every document is classified against the index as it was
\* when the call started (st.start), the writes being applied as they come
RECURSIVE BatchFromSnapshot(_, _, _, _, _, _)
BatchFromSnapshot(st, documents, k, ns, merge, fail_at) ==
  IF k > Len(documents)
  THEN {[index |-> st.index, outcome |-> "returned", stats |-> st.stats]}
  ELSE IF k = fail_at
  THEN {[index |-> st.index, outcome |-> "raised", stats |-> NoStats]}
  ELSE LET call == DocCall(documents[k], ns, merge) IN
       UNION {LET w == SmartWrite(st.index, call, p.cls) IN
              BatchFromSnapshot([index |-> w.index, start |-> st.start,
                                 stats |-> Counted(st.stats, w.result)],
                                documents, k + 1, ns, merge, fail_at) :
                p \in SmartClassify(st.start, call)}

\* the loop of lines 398-411 from document k on: each document goes through
\* smart_upsert_text against the index the earlier ones left; an embedding
\* or index failure at document fail_at raises out of the loop and out of
\* the call (line 427), whatever was written before stays written
RECURSIVE BatchFrom(_, _, _, _, _, _)
BatchFrom(st, documents, k, ns, merge, fail_at) ==
  IF k > Len(documents)
  THEN {[index |-> st.index, outcome |-> "returned", stats |-> st.stats]}
  ELSE IF k = fail_at
  THEN {[index |-> st.index, outcome |-> "raised", stats |-> NoStats]}
  ELSE LET call == DocCall(documents[k], ns, merge) IN
       UNION {LET w == SmartWrite(st.index, call, p.cls) IN
              BatchFrom([index |-> w.index, start |-> st.start,
                         stats |-> Counted(st.stats, w.result)],
                        documents, k + 1, ns, merge, fail_at) :
                p \in SmartClassify(st.index, call)}

\* upsert_documents, lines 147-168: one index.upsert of all the documents
\* (batch_size is 100), the metadata being every field but the id
RECURSIVE UpsertDocuments(_, _, _, _)
UpsertDocuments(idx, documents, k, ns) ==
  IF k > Len(documents) THEN idx
  ELSE UpsertDocuments(IndexUpsert(idx, ns, documents[k].id,
                                   get_embedding(documents[k].text),
                                   DocMetadata(documents[k])),
                       documents, k + 1, ns)

\* smart_upsert_documents: what the call can leave behind and hand back;
\* fail_at is the document at which an embedding or index call fails (0: none)
BatchOutcomes(idx, documents, ns, cd, merge, fail_at) ==
  IF cd
  THEN BatchFrom([index |-> idx, start |-> idx, stats |-> NewStats(documents)],
                 documents, 1, ns, merge, fail_at)
  ELSE IF fail_at # 0
  THEN {[index |-> idx, outcome |-> "raised", stats |-> NoStats]}
  ELSE {[index |-> UpsertDocuments(idx, documents, 1, ns), outcome |-> "returned",
         stats |-> [NewStats(documents) EXCEPT !.created = Len(documents)]]}

\* PineconeManager.smart_upsert_documents, run from entry to return
SmartUpsertDocuments(ns, documents, cd, merge, fail_at) ==
  /\ calls < MaxCalls
  /\ calls' = calls + 1
  /\ histories' = histories
  /\ \E o \in BatchOutcomes(index, documents, ns, cd, merge, fail_at) :
       /\ index' = o.index
       /\ last' = [op |-> "smart_upsert_documents", namespace |-> ns,
                   documents |-> documents, check_duplicates |-> cd,
                   update_if_duplicate |-> merge, fail_at |-> fail_at,
                   outcome |-> o.outcome, stats |-> o.stats]
  /\ UNCHANGED <<now, pc>>

\* the lists written by an earlier smart_upsert_documents call
SeedLists == {<<>>, <<Doc(1, "a")>>, <<Doc(3, "a1")>>, <<Doc(1, "b"), Doc(2, "a")>>}

InitBatch ==
  /\ \E seed \in SeedLists :
       index = UpsertDocuments(EmptyIndex, seed, 1, get_namespace(1))
  /\ now = 1
  /\ pc = [th \in Threads |-> Idle]
  /\ calls = 0
  /\ histories = NoHistories
  /\ last = NoLast

\* One batch save into a namespace that earlier batch saves have filled
NextBatch ==
  \E documents \in DocumentLists, cd, merge \in BOOLEAN :
    \E fail_at \in 0 .. Len(documents) :
      calls = 0 /\ SmartUpsertDocuments(get_namespace(1), documents, cd, merge, fail_at)

SpecBatch == InitBatch /\ [][NextBatch]_vars

----------------------------------------------------------------------------
(* Document ingestion: DoclingIngestionPipeline.process, run by the         *)
(* background thread of _process_document_background                        *)

\* the serialized chunks of the uploaded files: the same filename may be
\* uploaded again with other content; " " is a chunk with no text
ChunkLists == {<<"a2", " ", "b">>, <<"a">>}

\* not text.strip()
IsBlank(text) == text \in {"", " "}

\* the metadata process passes with chunk i of all_chunks (enumerate from 0)
ChunkMetadataAt(filename, i) ==
  ("filename" :> filename) @@ ("chunk_index" :> i) @@ ("page_no" :> 1) @@
  ("headings" :> "h")

\* the background thread at the top of the chunk loop; failed counts the
\* saves that came back with action=error (the code keeps no such count)
Ingesting(user_id, filename, chunks) ==
  [stage |-> "ingesting", user_id |-> user_id, filename |-> filename,
   chunks |-> chunks, i |-> 0, saved_texts |-> <<>>, failed |-> 0]

\* _process_document_background starts: the download and the conversion
\* succeed (ok) or raise, and then the user is told the file was not processed
StartIngest(user_id, filename, chunks) ==
  /\ pc[1] = Idle
  /\ calls < MaxCalls
  /\ calls' = calls + 1
  /\ histories' = histories
  /\ \E ok \in BOOLEAN :
       IF ok
       THEN /\ pc' = [pc EXCEPT ![1] = Ingesting(user_id, filename, chunks)]
            /\ last' = last
       ELSE /\ pc' = pc
            /\ last' = [op |-> "process_document", user_id |-> user_id,
                        filename |-> filename, outcome |-> "raised",
                        reply |-> "failed", chunks |-> <<>>, failed |-> 0,
                        passport_ok |-> FALSE]
  /\ UNCHANGED <<index, now>>

\* one pass of the chunk loop: a blank chunk is skipped; any other is saved
\* without the duplicate check and appended to saved_texts whatever save
\* returned
IngestChunk ==
  /\ pc[1].stage = "ingesting"
  /\ pc[1].i < Len(pc[1].chunks)
  /\ LET p == pc[1]
         text == p.chunks[p.i + 1]
         call == SaveCall(p.user_id, text, "doc_chunk",
                          ChunkMetadataAt(p.filename, p.i), FALSE, NoneId, now)
     IN IF IsBlank(text)
        THEN /\ pc' = [pc EXCEPT ![1].i = p.i + 1]
             /\ UNCHANGED <<index, last>>
        ELSE \E ok \in BOOLEAN :
               LET w == SmartWrite(index, call, NoClass) IN
               /\ index' = IF ok THEN w.index ELSE index
               /\ last' = UpsertReturn("save", call, 0, FALSE, ok, w.result)
               /\ pc' = [pc EXCEPT ![1].i = p.i + 1,
                                   ![1].saved_texts = Append(p.saved_texts, text),
                                   ![1].failed = p.failed + (IF ok THEN 0 ELSE 1)]
  /\ UNCHANGED <<now, calls, histories>>

\* after the loop: save_doc_index with len(saved_texts), the return of
\* process, and the message the handler sends
IngestPassport ==
  /\ pc[1].stage = "ingesting"
  /\ pc[1].i = Len(pc[1].chunks)
  /\ LET p == pc[1]
         call == DocIndexCall(p.user_id, p.filename, Len(p.saved_texts), now)
     IN \E ok \in BOOLEAN :
          /\ index' = IF ok THEN SmartWrite(index, call, NoClass).index ELSE index
          /\ last' = [op |-> "process_document", user_id |-> p.user_id,
                      filename |-> p.filename, outcome |-> "returned",
                      reply |-> "done", chunks |-> p.saved_texts,
                      failed |-> p.failed, passport_ok |-> ok]
  /\ pc' = [pc EXCEPT ![1] = Idle]
  /\ UNCHANGED <<now, calls, histories>>

NextIngest ==
  \/ \E u \in Users, f \in Filenames, chunks \in ChunkLists : StartIngest(u, f, chunks)
  \/ IngestChunk
  \/ IngestPassport
  \/ \E ns \in Namespaces : Delete(ns, ClearArgs)
  \/ Tick

SpecIngest == Init /\ [][NextIngest]_vars

\* Uploads alone: documents are ingested one after another and nothing is
\* deleted
NextUpload ==
  \/ \E u \in Users, f \in Filenames, chunks \in ChunkLists : StartIngest(u, f, chunks)
  \/ IngestChunk
  \/ IngestPassport
  \/ Tick

SpecUpload == Init /\ [][NextUpload]_vars

----------------------------------------------------------------------------
(* The life of a record: every kind of call on one user's namespace *)

LifeLists == {<<Doc(1, "a"), Doc(2, "a1")>>, <<Doc(2, "b")>>}

NextLife ==
  \/ \E text \in {"a", "a1"}, k \in SaveKinds : SeqSave(1, text, k)
  \/ \E n \in {1, 2} : SeqSaveDocIndex(1, "f1", n)
  \/ \E documents \in LifeLists, cd \in BOOLEAN :
       \E fail_at \in 0 .. Len(documents) :
         SmartUpsertDocuments(get_namespace(1), documents, cd, TRUE, fail_at)
  \/ \E query \in {"q", "qall"} : Retrieve(1, query, 10)
  \/ CheckSimilarity(get_namespace(1), "a", CHECK_TOP_K, NoFilter, <<NoneNum, NoneNum>>)
  \/ ListIndexedDocuments(1)
  \/ \E args \in DeleteArgs(index, get_namespace(1)) : Delete(get_namespace(1), args)
  \/ Tick

SpecLife == Init /\ [][NextLife]_vars

----------------------------------------------------------------------------
(* MemoryManager.format_for_context (memory/manager.py) *)

\* a heading of 61 characters, one more than a source line shows
LongHeading == "0123456789012345678901234567890123456789012345678901234567890"

\* a record as _to_memory hands it over
Memory(text, type, filename, page_no, headings) ==
  [text |-> text, score |-> 5000, type |-> type, id |-> <<1, type, 1>>,
   filename |-> filename, page_no |-> page_no, headings |-> headings]

\* the records passed: chunks with and without locators, a message, a fact
FormatRecords ==
  {Memory("a2", "doc_chunk", "f1", 1, "h"),
   Memory("b", "doc_chunk", "", NoneNum, ""),
   Memory("a1", "doc_chunk", "f2", NoneNum, LongHeading),
   Memory("a", "message", "", NoneNum, ""),
   Memory("q", "fact", "", NoneNum, "")}

MemoryLists ==
  UNION {[1 .. n -> FormatRecords] : n \in 0 .. MaxMemories}

\* sep.join(strings)
RECURSIVE Join(_, _)
Join(strings, sep) ==
  IF strings = <<>> THEN ""
  ELSE IF Len(strings) = 1 THEN strings[1]
  ELSE strings[1] \o sep \o Join(Tail(strings), sep)

\* s[:n]
Prefix(str, n) == IF Len(str) > n THEN SubSeq(str, 1, n) ELSE str

\* lines 250-257: the locators of a chunk, "  [f1, p. 1, heading]" or nothing
SourceParts(m) ==
  (IF m.filename # "" THEN <<m.filename>> ELSE <<>>) \o
  (IF m.page_no # NoneNum THEN <<"p. " \o Str(m.page_no)>> ELSE <<>>) \o
  (IF m.headings # "" THEN <<Prefix(m.headings, 60)>> ELSE <<>>)

Source(m) ==
  IF SourceParts(m) # <<>> THEN "  [" \o Join(SourceParts(m), ", ") \o "]" ELSE ""

\* enumerate(memories, 1)
Numbered(memories) == [i \in 1 .. Len(memories) |-> [no |-> i, m |-> memories[i]]]

\* line 249: m["type"] == "doc_chunk"
IsDocEntry(e) == e.m.type = "doc_chunk"

\* faulty variant of IsMsgEntry: only records of type message are listed as messages
IsMsgEntryMessageOnly(e) == e.m.type = "message"

\* line 259: the else branch
IsMsgEntry(e) == e.m.type # "doc_chunk"

DocLine(e) == Str(e.no) \o ". " \o e.m.text \o Source(e.m)

MsgLine(e) == Str(e.no) \o ". " \o e.m.text

DocHeader == "\n\n=== From the uploaded documents ==="

DocFooter == "================================="

MsgHeader == "\n=== Earlier messages of the user ==="

MsgFooter == "=======================================\n"

\* lines 245-270: doc_lines, msg_lines and the parts list
FormatParts(memories) ==
  LET docs == SelectSeq(Numbered(memories), IsDocEntry)
      msgs == SelectSeq(Numbered(memories), IsMsgEntry)
      doc_lines == [j \in 1 .. Len(docs) |-> DocLine(docs[j])]
      msg_lines == [j \in 1 .. Len(msgs) |-> MsgLine(msgs[j])]
  IN (IF doc_lines # <<>> THEN <<DocHeader>> \o doc_lines \o <<DocFooter>> ELSE <<>>) \o
     (IF msg_lines # <<>> THEN <<MsgHeader>> \o msg_lines \o <<MsgFooter>> ELSE <<>>)

\* format_for_context
format_for_context(memories) ==
  IF memories = <<>> THEN "" ELSE Join(FormatParts(memories), "\n")

\* the records to format have been retrieved
InitFormat ==
  /\ index = EmptyIndex
  /\ now = 1
  /\ pc = [th \in Threads |-> Idle]
  /\ calls = 0
  /\ histories = NoHistories
  /\ \E memories \in MemoryLists : last = [op |-> "memories", memories |-> memories]

\* MemoryManager.format_for_context(memories)
FormatForContext ==
  /\ last.op = "memories"
  /\ last' = [op |-> "format_for_context", memories |-> last.memories,
              parts |-> IF last.memories = <<>> THEN <<>> ELSE FormatParts(last.memories),
              result |-> format_for_context(last.memories)]
  /\ UNCHANGED <<index, now, pc, calls, histories>>

NextFormat == FormatForContext

SpecFormat == InitFormat /\ [][NextFormat]_vars

----------------------------------------------------------------------------
(* BotHandlers._on_text and _on_clear_callback (handlers/telegram.py) *)

MAX_HISTORY_MESSAGES == 20

\* deque(maxlen=_MAX_HISTORY_MESSAGES).append: the oldest entry falls out
DequeAppend(entries, entry) ==
  IF Len(entries) >= MAX_HISTORY_MESSAGES
  THEN Append(Tail(entries), entry)
  ELSE Append(entries, entry)

\* what the assistant answers to a message
ResponseTo(text) == "re:" \o text

\* a worker thread inside _on_text, between two of its statements
Handling(user_id, text, create) ==
  [stage |-> "started", user_id |-> user_id, text |-> text, create |-> create,
   retrieved |-> FALSE, replied |-> FALSE, appended |-> 0]

\* the handler's except clause has run, or its last statement: the thread is
\* free again and last says how far the message got
OnTextEnds(th, outcome) ==
  /\ pc' = [pc EXCEPT ![th] = Idle]
  /\ last' = [op |-> "on_text", user_id |-> pc[th].user_id, text |-> pc[th].text,
              outcome |-> outcome, retrieved |-> pc[th].retrieved,
              replied |-> pc[th].replied, appended |-> pc[th].appended]

\* _on_text, line 349: a free worker takes the message and tests whether the
\* user has a history
OnText(th, user_id, text) ==
  /\ FreeThread(th)
  /\ calls < MaxCalls
  /\ calls' = calls + 1
  /\ pc' = [pc EXCEPT ![th] = Handling(user_id, text, ~histories[user_id].present)]
  /\ UNCHANGED <<index, now, last, histories>>

\* lines 350-351: the deque is created if the test said so
OnTextHistory(th) ==
  /\ pc[th].stage = "started"
  /\ histories' = IF pc[th].create
                   THEN [histories EXCEPT ![pc[th].user_id] =
                           [present |-> TRUE, entries |-> <<>>]]
                   ELSE histories
  /\ pc' = [pc EXCEPT ![th].stage = "retrieving"]
  /\ UNCHANGED <<index, now, calls, last>>

\* line 355: memory.retrieve(user_id, user_message, top_k=10), which raises
\* when the embedding or the index call fails
OnTextRetrieve(th) ==
  /\ pc[th].stage = "retrieving"
  /\ \E ok \in BOOLEAN :
       IF ok
       THEN /\ pc' = [pc EXCEPT ![th].stage = "replying", ![th].retrieved = TRUE]
            /\ last' = last
       ELSE OnTextEnds(th, "error")
  /\ UNCHANGED <<index, now, calls, histories>>

\* lines 367-376: the agent produces the reply and reply_to sends it; either
\* may raise
OnTextReply(th) ==
  /\ pc[th].stage = "replying"
  /\ \E ok \in BOOLEAN :
       IF ok
       THEN /\ pc' = [pc EXCEPT ![th].stage = "replied", ![th].replied = TRUE]
            /\ last' = last
       ELSE OnTextEnds(th, "error")
  /\ UNCHANGED <<index, now, calls, histories>>

\* line 379: the user entry is appended; a KeyError if the history is gone
OnTextAppendUser(th) ==
  /\ pc[th].stage = "replied"
  /\ LET u == pc[th].user_id IN
     IF histories[u].present
     THEN /\ histories' = [histories EXCEPT ![u].entries =
                             DequeAppend(@, [role |-> "user", content |-> pc[th].text])]
          /\ pc' = [pc EXCEPT ![th].stage = "appended_user", ![th].appended = 1]
          /\ last' = last
     ELSE /\ histories' = histories
          /\ OnTextEnds(th, "error")
  /\ UNCHANGED <<index, now, calls>>

\* line 380: the assistant entry is appended
OnTextAppendAssistant(th) ==
  /\ pc[th].stage = "appended_user"
  /\ LET u == pc[th].user_id IN
     IF histories[u].present
     THEN /\ histories' = [histories EXCEPT ![u].entries =
                             DequeAppend(@, [role |-> "assistant",
                                             content |-> ResponseTo(pc[th].text)])]
          /\ pc' = [pc EXCEPT ![th].stage = "saving", ![th].appended = 2]
          /\ last' = last
     ELSE /\ histories' = histories
          /\ OnTextEnds(th, "error")
  /\ UNCHANGED <<index, now, calls>>

\* lines 383-389: memory.save(user_id, text, "message", {"username": ...}),
\* run from its duplicate check to its return; the handler ends
OnTextSave(th) ==
  /\ pc[th].stage = "saving"
  /\ LET call == SaveCall(pc[th].user_id, pc[th].text, "message", MessageMetadata,
                          TRUE, NoneId, now)
     IN \E p \in SmartClassify(index, call) : \E ok \in BOOLEAN :
          /\ index' = IF ok THEN SmartWrite(index, call, p.cls).index ELSE index
          /\ OnTextEnds(th, IF ok THEN "saved" ELSE "save_error")
  /\ UNCHANGED <<now, calls, histories>>

\* callback_data of the two buttons _on_clear puts under its question
CallbackData == {"clear_cancel"} \cup {"clear_confirm_" \o Str(u) : u \in Users}

\* int(s)
ParseInt(str) == CHOOSE n \in 0 .. 99 : Str(n) = str

\* int(call.data.split("_")[2]) of "clear_confirm_<id>"
ConfirmedUser(data) == ParseInt(SubSeq(data, Len("clear_confirm_") + 1, Len(data)))

\* call.data.startswith("clear_confirm_")
IsConfirm(data) ==
  /\ Len(data) >= Len("clear_confirm_")
  /\ SubSeq(data, 1, Len("clear_confirm_")) = "clear_confirm_"

\* faulty variant of ClearCallback: the presser is not compared with the id
\* in the callback data
ClearCallbackAnyPresser(presser, data) ==
  /\ IF data = "clear_cancel"
     THEN /\ UNCHANGED <<index, histories, pc>>
          /\ last' = [op |-> "clear_callback", presser |-> presser, data |-> data,
                      outcome |-> "cancelled"]
     ELSE LET user_id == ConfirmedUser(data) IN
          /\ index' = delete(index, {}, TRUE, get_namespace(user_id), NoFilter)
          /\ histories' = [histories EXCEPT ![user_id] = NoHistory]
          /\ pc' = pc
          /\ last' = [op |-> "clear_callback", presser |-> presser, data |-> data,
                      outcome |-> "cleared"]
  /\ UNCHANGED <<now, calls>>

\* _on_clear_callback, pressed by user presser with the button's data
ClearCallback(presser, data) ==
  /\ IF data = "clear_cancel"
     THEN /\ UNCHANGED <<index, histories, pc>>
          /\ last' = [op |-> "clear_callback", presser |-> presser, data |-> data,
                      outcome |-> "cancelled"]
     ELSE IF ~IsConfirm(data)
     THEN /\ UNCHANGED <<index, histories, pc>>
          /\ last' = [op |-> "clear_callback", presser |-> presser, data |-> data,
                      outcome |-> "ignored"]
     ELSE IF presser # ConfirmedUser(data)
     THEN /\ UNCHANGED <<index, histories, pc>>
          /\ last' = [op |-> "clear_callback", presser |-> presser, data |-> data,
                      outcome |-> "wrong_user"]
     ELSE \E ok \in BOOLEAN :
            LET user_id == ConfirmedUser(data) IN
            /\ index' = IF ok THEN delete(index, {}, TRUE, get_namespace(user_id), NoFilter)
                         ELSE index
            /\ histories' = IF ok THEN [histories EXCEPT ![user_id] = NoHistory]
                             ELSE histories
            /\ pc' = pc
            /\ last' = [op |-> "clear_callback", presser |-> presser, data |-> data,
                        outcome |-> IF ok THEN "cleared" ELSE "error"]
  /\ UNCHANGED <<now, calls>>

\* Text messages handled by the worker threads, and the clear buttons
NextChat ==
  \/ \E th \in Threads, u \in Users, text \in {"a", "b"} : OnText(th, u, text)
  \/ \E th \in Threads : OnTextHistory(th)
  \/ \E th \in Threads : OnTextRetrieve(th)
  \/ \E th \in Threads : OnTextReply(th)
  \/ \E th \in Threads : OnTextAppendUser(th)
  \/ \E th \in Threads : OnTextAppendAssistant(th)
  \/ \E th \in Threads : OnTextSave(th)
  \/ \E presser \in Users, data \in CallbackData : ClearCallback(presser, data)

SpecChat == Init /\ [][NextChat]_vars

----------------------------------------------------------------------------
(* Properties *)

\* the step in which thread th makes the write of its classified call and the
\* call returns normally (its embedding and index calls succeeded)
WriteStepOf(th) ==
  /\ pc[th].stage = "classified"
  /\ pc'[th] = Idle
  /\ last'.op = "smart_upsert_text"
  /\ last'.outcome = "returned"
  /\ last'.result.action # "error"

\* a returned smart_upsert_text call in `last`
Upserted ==
  /\ last.op = "smart_upsert_text"
  /\ last.outcome = "returned"
  /\ last.result.action \in {"created", "updated", "skipped"}

\* C1: check_similarity with thresholds high > low returns duplicate iff the
\* top neighbour scores >= high, similar iff low <= score < high, new iff
\* score < low or there is no neighbour (and then no match); with the
\* defaults 0.80 / 0.75 the scores 0.80, 0.7999, 0.75, 0.7499 classify as
\* duplicate, similar, similar, new.
C1_ClassifyThresholds ==
  (last.op = "check_similarity" /\ last.outcome = "returned" /\ last.high > last.low) =>
    LET m == last.matches
        r == last.result
        some == m # <<>>
    IN /\ (r.status = "duplicate") <=> (some /\ m[1].score >= last.high)
       /\ (r.status = "similar") <=> (some /\ m[1].score >= last.low /\ m[1].score < last.high)
       /\ (r.status = "new") <=> (~some \/ m[1].score < last.low)
       /\ ~some => r.match = <<>>
       /\ some => r.match = <<m[1]>>
       /\ (some /\ last.high = 8000 /\ last.low = 7500) =>
            /\ m[1].score = 8000 => r.status = "duplicate"
            /\ m[1].score = 7999 => r.status = "similar"
            /\ m[1].score = 7500 => r.status = "similar"
            /\ m[1].score = 7499 => r.status = "new"

\* a check with the default thresholds whose top neighbour scores exactly 0.80
C1_Witness ==
  /\ last.op = "check_similarity" /\ last.outcome = "returned"
  /\ last.high = 8000 /\ last.low = 7500
  /\ last.matches # <<>> /\ last.matches[1].score = 8000
  /\ last.result.status = "duplicate"

\* C2: a save that classified its text as duplicate, with mergeOnDuplicate,
\* returns action=updated with the matched id, overwrites the matched
\* record's metadata (its text included) in place, writes nothing under the
\* caller's id and leaves the namespace's set of ids unchanged.
C2_MergeInPlace ==
  [][\A th \in Threads :
       (/\ WriteStepOf(th)
        /\ pc[th].call.check_duplicates
        /\ pc[th].cls.status = "duplicate"
        /\ pc[th].call.update_if_duplicate) =>
         LET c == pc[th].call
             ns == c.namespace
             mid == pc[th].cls.match[1].id
         IN /\ last'.result.action = "updated"
            /\ last'.result.doc_id = mid
            /\ DOMAIN index'[ns] = DOMAIN index[ns]
            /\ \A i \in DOMAIN index[ns] : i # mid => index'[ns][i] = index[ns][i]
            /\ mid \in DOMAIN index[ns] =>
                 /\ Get(index'[ns][mid].metadata, "text", NoneStr) = c.text
                 /\ \A k \in DOMAIN c.metadata :
                      Get(index'[ns][mid].metadata, k, NoneStr) = c.metadata[k]
                 /\ index'[ns][mid].values = index[ns][mid].values]_vars

\* a merge has returned the matched id, which is not the caller's id, and the
\* matched record now carries the saved text
C2_Witness ==
  /\ Upserted
  /\ last.result.action = "updated"
  /\ last.result.doc_id # last.call.doc_id
  /\ last.result.doc_id \in DOMAIN index[last.call.namespace]
  /\ last.call.doc_id \notin DOMAIN index[last.call.namespace]
  /\ Get(index[last.call.namespace][last.result.doc_id].metadata, "text", NoneStr) = last.call.text

\* C3: a save that classified its text as similar or new writes exactly one
\* record, under the caller's id and with the text in its metadata, and
\* returns action=created with the caller's id.
C3_CreateUnderCallerId ==
  [][\A th \in Threads :
       (/\ WriteStepOf(th)
        /\ pc[th].call.check_duplicates
        /\ pc[th].cls.status \in {"similar", "new"}) =>
         LET c == pc[th].call
             ns == c.namespace
         IN /\ last'.result.action = "created"
            /\ last'.result.doc_id = c.doc_id
            /\ DOMAIN index'[ns] = DOMAIN index[ns] \cup {c.doc_id}
            /\ \A i \in DOMAIN index[ns] : i # c.doc_id => index'[ns][i] = index[ns][i]
            /\ index'[ns][c.doc_id].values = get_embedding(c.text)
            /\ Get(index'[ns][c.doc_id].metadata, "text", NoneStr) = c.text
            /\ \A k \in DOMAIN c.metadata :
                 Get(index'[ns][c.doc_id].metadata, k, NoneStr) = c.metadata[k]]_vars

\* a save classified as similar has created its record
C3_Witness ==
  /\ Upserted
  /\ last.call.check_duplicates
  /\ last.result.similarity_status = "similar"
  /\ last.result.action = "created"
  /\ last.result.doc_id = last.call.doc_id
  /\ last.call.doc_id \in DOMAIN index[last.call.namespace]

\* C4: a save that classified its text as duplicate, without
\* mergeOnDuplicate, returns action=skipped and leaves the index as it was.
C4_SkipWritesNothing ==
  [][\A th \in Threads :
       (/\ WriteStepOf(th)
        /\ pc[th].call.check_duplicates
        /\ pc[th].cls.status = "duplicate"
        /\ ~pc[th].call.update_if_duplicate) =>
         /\ last'.result.action = "skipped"
         /\ index' = index]_vars

\* a duplicate has been skipped while the record it matched is in the index
C4_Witness ==
  /\ Upserted
  /\ last.result.action = "skipped"
  /\ last.result.similarity_status = "duplicate"
  /\ last.result.matched_id \in DOMAIN index[last.call.namespace]
  /\ last.call.doc_id \notin DOMAIN index[last.call.namespace]

\* the step in which a smart_upsert_text call returns normally
ReturnStep ==
  /\ calls' # calls \/ pc' # pc
  /\ last'.op = "smart_upsert_text"
  /\ last'.outcome = "returned"
  /\ last'.result.action # "error"

\* C5: a save with checkDuplicates=false issues no classification query and
\* writes the record under the caller's id whatever the namespace holds,
\* returning action=created.
C5_NoCheckAlwaysCreates ==
  [][(ReturnStep /\ last'.via = "save" /\ ~last'.call.check_duplicates) =>
       LET c == last'.call
           ns == c.namespace
       IN /\ last'.queries = 0
          /\ last'.result.action = "created"
          /\ last'.result.doc_id = c.doc_id
          /\ last'.result.similarity_status = NoneStr
          /\ c.doc_id \in DOMAIN index'[ns]
          /\ index'[ns][c.doc_id].values = get_embedding(c.text)
          /\ Get(index'[ns][c.doc_id].metadata, "text", NoneStr) = c.text
          /\ \A i \in DOMAIN index[ns] : i # c.doc_id => index'[ns][i] = index[ns][i]]_vars

\* an unchecked save has created a record although another record of the
\* namespace holds the identical text
C5_Witness ==
  /\ Upserted
  /\ ~last.call.check_duplicates
  /\ last.via = "save"
  /\ last.result.action = "created"
  /\ \E i \in DOMAIN index[last.call.namespace] :
       /\ i # last.call.doc_id
       /\ index[last.call.namespace][i].values = get_embedding(last.call.text)
       /\ Get(index[last.call.namespace][i].metadata, "text", NoneStr) = last.call.text

\* a read call has returned
ReadReturned ==
  /\ last.op \in {"retrieve", "check_similarity", "list_indexed_documents"}
  /\ last.outcome = "returned"

\* the index match m is a record of namespace ns and of no other namespace
RecordOfOnly(m, ns) ==
  /\ m.id \in DOMAIN index[ns]
  /\ m.metadata = index[ns][m.id].metadata
  /\ \A other \in Namespaces \ {ns} : m.id \notin DOMAIN index[other]

\* user ids over which the namespace naming is compared
NamedUsers == 0 .. 11

\* C6: whatever retrieve, check_similarity, the duplicate check inside save
\* and list_indexed_documents hand back for a namespace is a record of that
\* namespace and of no other, whatever the other namespaces hold and
\* whatever the query text; distinct user ids have distinct namespaces.
C6_NamespaceIsolation ==
  /\ ReadReturned =>
       /\ \A i \in DOMAIN last.matches : RecordOfOnly(last.matches[i], last.namespace)
       /\ last.op = "retrieve" =>
            \A j \in DOMAIN last.result :
              /\ last.result[j].id \in DOMAIN index[last.namespace]
              /\ \A other \in Namespaces \ {last.namespace} :
                   last.result[j].id \notin DOMAIN index[other]
              /\ last.result[j].text =
                   Get(index[last.namespace][last.result[j].id].metadata, "text", "")
       /\ last.op = "check_similarity" =>
            \A j \in DOMAIN last.result.match :
              RecordOfOnly(last.result.match[j], last.namespace)
       /\ last.op = "list_indexed_documents" =>
            \A j \in DOMAIN last.result :
              \E i \in DOMAIN index[last.namespace] :
                /\ Get(index[last.namespace][i].metadata, "type", NoneStr) = "doc_index"
                /\ Get(index[last.namespace][i].metadata, "filename", NoneStr) =
                     last.result[j].filename
  /\ (Upserted /\ last.queries > 0 /\ last.result.matched_id # NoneId) =>
       /\ last.result.matched_id \in DOMAIN index[last.call.namespace]
       /\ \A other \in Namespaces \ {last.call.namespace} :
            last.result.matched_id \notin DOMAIN index[other]
  /\ \A u1, u2 \in NamedUsers : u1 # u2 => get_namespace(u1) # get_namespace(u2)

\* retrieve for one user, with a query text identical to a text another
\* user's namespace holds, has returned that user's own record and nothing
\* of the other namespace
C6_Witness ==
  /\ ReadReturned
  /\ last.op = "retrieve"
  /\ last.path = "normal"
  /\ Len(last.result) = 1
  /\ last.result[1].text = last.query
  /\ last.result[1].id \in DOMAIN index[last.namespace]
  /\ \E other \in Namespaces \ {last.namespace} :
       \E i \in DOMAIN index[other] :
         /\ Get(index[other][i].metadata, "text", NoneStr) = last.query
         /\ index[other][i].values = get_embedding(last.query)

\* one call on a namespace, run from entry to return on index idx: every
\* index it can leave behind (the index's answer to the duplicate check is
\* not unique when scores tie)
AfterUpsert(idx, call) ==
  {SmartWrite(idx, call, p.cls).index : p \in SmartClassify(idx, call)}

AfterOp(idx, op) ==
  IF op.kind = "clear" THEN {delete(idx, ClearArgs.ids, ClearArgs.delete_all, op.namespace, ClearArgs.flt)}
  ELSE AfterUpsert(idx, op.call)

AfterOps(idxs, op) == UNION {AfterOp(idx, op) : idx \in idxs}

\* the writes of user_id at the current clock: a message save with the
\* duplicate check (it creates or merges), a passport upsert, a clear
WritesOf(user_id) ==
  {[kind |-> "save", namespace |-> get_namespace(user_id),
    call |-> SaveCall(user_id, text, "message", MessageMetadata, TRUE, NoneId, now)] :
     text \in {"a", "a1"}}
  \cup {[kind |-> "passport", namespace |-> get_namespace(user_id),
         call |-> DocIndexCall(user_id, "f1", 1, now)],
        [kind |-> "clear", namespace |-> get_namespace(user_id)]}

\* a step changes only the namespace of the call it runs
WritesOwnNamespaceOnly ==
  \A ns \in Namespaces :
    index'[ns] # index[ns] =>
      \/ last'.op = "smart_upsert_text" /\ last'.call.namespace = ns
      \/ last'.op = "delete" /\ last'.namespace = ns

\* writes on different namespaces give the same index in either order
WritesCommute ==
  \A u1, u2 \in Users :
    u1 < u2 =>
      \A w1 \in WritesOf(u1), w2 \in WritesOf(u2) :
        AfterOps(AfterOp(index, w1), w2) = AfterOps(AfterOp(index, w2), w1)

\* C7: a created save, a duplicate merge, a passport upsert and a
\* namespace-wide clear change no record of any namespace but their own, and
\* two writes on different namespaces leave the same index whichever runs
\* first.
C7_WritesStayInNamespace == [][WritesOwnNamespaceOnly]_vars /\ []WritesCommute

\* a namespace has been cleared after each user made a save, and the other
\* namespace still holds its passport
C7_Witness ==
  /\ last.op = "delete"
  /\ last.args.delete_all
  /\ calls = 2
  /\ index[last.namespace] = EmptyNamespace
  /\ \E other \in Namespaces \ {last.namespace} :
       /\ Cardinality(DOMAIN index[other]) = 1
       /\ \A i \in DOMAIN index[other] :
            Get(index[other][i].metadata, "type", NoneStr) = "doc_index"

\* the step that runs one save with the duplicate check from entry to return
DedupSaveStep ==
  /\ calls' = calls + 1
  /\ last'.op = "smart_upsert_text"
  /\ last'.call.check_duplicates

\* some record of the call's namespace scores at least the call's high
\* threshold against the call's text
ScoresHigh(idx, call) ==
  \E i \in DOMAIN idx[call.namespace] :
    Cosine(get_embedding(call.text), idx[call.namespace][i].values)
      >= High(call.threshold_high)

\* the save neither adds a record nor reports one created
MergedOrSkipped ==
  /\ Cardinality(DOMAIN index'[last'.call.namespace])
       <= Cardinality(DOMAIN index[last'.call.namespace])
  /\ (last'.outcome = "returned" /\ last'.result.action # "error") =>
       last'.result.action \in {"updated", "skipped"}

\* C8 as stated: in a history of non-overlapping saves with
\* checkDuplicates=true in one namespace, a save whose text scores >= high
\* against an existing record never increases the record count (it merges
\* or skips).
C8_Original_DuplicateNeverAdds ==
  [][(DedupSaveStep /\ ScoresHigh(index, last'.call)) => MergedOrSkipped]_vars

\* C8 amended: in a history of non-overlapping saves with
\* checkDuplicates=true in one namespace, a save made without a metadata
\* filter whose text scores >= high against an existing record never
\* increases the record count (it merges or skips); so such a save creates a
\* record only when no existing record scored >= high against its text.
C8_UnfilteredDuplicateNeverAdds ==
  [][(DedupSaveStep /\ last'.call.filter_dict = NoFilter) =>
       /\ ScoresHigh(index, last'.call) => MergedOrSkipped
       /\ (last'.outcome = "returned" /\ last'.result.action = "created") =>
            ~ScoresHigh(index, last'.call)]_vars

\* the second unfiltered save found the first save's record scoring >= high
\* and merged into it: the namespace still holds one record, not the caller's
C8_Witness ==
  /\ Upserted
  /\ last.call.check_duplicates
  /\ last.call.filter_dict = NoFilter
  /\ calls = 2
  /\ last.result.action = "updated"
  /\ last.result.similarity_score >= High(last.call.threshold_high)
  /\ last.result.similarity_score < SelfScore
  /\ Cardinality(DOMAIN index[last.call.namespace]) = 1
  /\ last.call.doc_id \notin DOMAIN index[last.call.namespace]

\* C9: a save with the duplicate check creates a record beside an existing
\* record scoring >= high against its text only when another call wrote to
\* the namespace between the save's duplicate check and its write: two
\* records of mutual similarity >= high come from two overlapping saves
\* (the witness), never from saves run one after the other.
C9_DuplicatePairOnlyByOverlap ==
  [][\A th \in Threads :
       (/\ WriteStepOf(th)
        /\ pc[th].call.check_duplicates
        /\ pc[th].call.filter_dict = NoFilter
        /\ last'.result.action = "created"
        /\ ScoresHigh(index, pc[th].call)) =>
         /\ pc[th].overlapped
         /\ last'.overlapped
         /\ pc[th].cls.status # "duplicate"]_vars

\* two message saves of near-duplicate texts have both classified `new`
\* against the empty namespace and both created a record: the namespace holds
\* two records of similarity >= high and nothing else
C9_Witness ==
  /\ Upserted
  /\ last.overlapped
  /\ last.via = "save"
  /\ last.call.check_duplicates
  /\ last.result.action = "created"
  /\ last.result.similarity_status = "new"
  /\ last.result.matched_id = NoneId
  /\ calls = 2
  /\ Cardinality(DOMAIN index[last.call.namespace]) = 2
  /\ \E i \in DOMAIN index[last.call.namespace] :
       /\ i # last.call.doc_id
       /\ Get(index[last.call.namespace][i].metadata, "type", NoneStr) = "message"
       /\ index[last.call.namespace][i].values # get_embedding(last.call.text)
       /\ Cosine(get_embedding(last.call.text), index[last.call.namespace][i].values)
            >= SIMILARITY_THRESHOLD_HIGH

\* the matches retrieve keeps on the normal path: over the score floor and
\* not a passport
KeptMatch(m) ==
  /\ m.score > SCORE_THRESHOLD
  /\ ~("type" \in DOMAIN m.metadata /\ m.metadata["type"] = "doc_index")

\* the position in matches of the j-th kept match
KeptAt(matches, j) ==
  CHOOSE i \in DOMAIN matches :
    /\ KeptMatch(matches[i])
    /\ Cardinality({k \in 1 .. i : KeptMatch(matches[k])}) = j

\* C10: on the normal path retrieve is handed at most top_k matches and
\* returns exactly those scoring strictly more than 0.30 whose type is not
\* doc_index, in the index's order and never more than top_k; a match
\* scoring exactly 0.30 is left out, and of matches scoring 0.9, 0.5, 0.31,
\* 0.29 the first three are returned.
C10_NormalPathScoreGate ==
  (last.op = "retrieve" /\ last.outcome = "returned" /\ last.path = "normal") =>
    LET m == last.matches
        r == last.result
        kept == {i \in DOMAIN m : KeptMatch(m[i])}
    IN /\ Len(m) <= last.top_k
       /\ Len(r) <= last.top_k
       /\ Len(r) = Cardinality(kept)
       /\ \A j \in DOMAIN r :
            /\ r[j].id = m[KeptAt(m, j)].id
            /\ r[j].score = m[KeptAt(m, j)].score
            /\ r[j].text = Get(m[KeptAt(m, j)].metadata, "text", "")
            /\ r[j].score > SCORE_THRESHOLD
            /\ r[j].type # "doc_index"
       /\ \A i \in DOMAIN m :
            m[i].score = SCORE_THRESHOLD => \A j \in DOMAIN r : r[j].id # m[i].id
       /\ [i \in DOMAIN m |-> m[i].score] = <<9000, 5000, 3100, 2900>> =>
            [j \in DOMAIN r |-> r[j].id] = <<m[1].id, m[2].id, m[3].id>>

\* retrieve was handed matches scoring 0.9, 0.5, 0.31, 0.29 and returned the
\* first three
C10_Witness ==
  /\ last.op = "retrieve"
  /\ last.outcome = "returned"
  /\ last.path = "normal"
  /\ [i \in DOMAIN last.matches |-> last.matches[i].score] = <<9000, 5000, 3100, 2900>>
  /\ [j \in DOMAIN last.result |-> last.result[j].score] = <<9000, 5000, 3100>>

\* the ids of the records of namespace ns that are not document passports
NonPassportIds(ns) ==
  {i \in DOMAIN index[ns] : Get(index[ns][i].metadata, "type", NoneStr) # "doc_index"}

\* C11: a query that contains a trigger phrase (in any letter case, anywhere
\* in it) makes retrieve return all the non-doc_index records of the
\* namespace, each once and whatever it scores; a query without a trigger
\* phrase takes the normal path, where every result is over the score floor.
C11_OverrideReturnsAll ==
  (last.op = "retrieve" /\ last.outcome = "returned") =>
    /\ HasTrigger(last.query) =>
         /\ last.path = "all"
         /\ {last.result[j].id : j \in DOMAIN last.result} = NonPassportIds(last.namespace)
         /\ Len(last.result) = Cardinality(NonPassportIds(last.namespace))
    /\ ~HasTrigger(last.query) =>
         /\ last.path = "normal"
         /\ \A j \in DOMAIN last.result : last.result[j].score > SCORE_THRESHOLD

\* C12: no result of retrieve, on the normal or on the override path, is a
\* record stored with type doc_index.
C12_NoPassportRetrieved ==
  (last.op = "retrieve" /\ last.outcome = "returned") =>
    \A j \in DOMAIN last.result :
      /\ last.result[j].type # "doc_index"
      /\ last.result[j].id \in DOMAIN index[last.namespace]
      /\ Get(index[last.namespace][last.result[j].id].metadata, "type", NoneStr) # "doc_index"

\* the override path was handed a passport among its matches, ahead of the
\* other records, and returned the others without it
C12_Witness ==
  /\ last.op = "retrieve"
  /\ last.outcome = "returned"
  /\ last.path = "all"
  /\ Len(last.matches) >= 2
  /\ Get(last.matches[1].metadata, "type", NoneStr) = "doc_index"
  /\ Len(last.result) >= 1
  /\ Len(last.result) < Len(last.matches)
  /\ \A j \in DOMAIN last.result : last.result[j].id # last.matches[1].id

----------------------------------------------------------------------------
\* the passports stored for a filename in a namespace
Passports(idx, ns, filename) ==
  {id \in DOMAIN idx[ns] :
     /\ Get(idx[ns][id].metadata, "type", NoneStr) = "doc_index"
     /\ Get(idx[ns][id].metadata, "filename", NoneStr) = filename}

\* a save_doc_index call returns in this step
SaveDocIndexStep ==
  /\ calls' = calls + 1
  /\ last'.op = "smart_upsert_text"
  /\ last'.via = "save_doc_index"

\* C13: a save_doc_index call issues no duplicate-check query and writes under
\* the id made of the user id and the filename alone (the same at every clock
\* value and chunk count, different for different filenames); when its write
\* lands, the namespace holds exactly one passport for the filename, under
\* that id, with the chunk count of this call, and no record was added unless
\* the filename had no passport; at no time does a filename have two passports.
C13_OnePassportPerFile ==
  /\ [][SaveDocIndexStep =>
         LET call == last'.call
             ns == call.namespace
             u == call.metadata["user_id"]
             f == call.metadata["filename"]
         IN /\ last'.queries = 0
            /\ call.doc_id = PassportId(u, f)
            /\ \A g \in Filenames \ {f} : PassportId(u, g) # call.doc_id
            /\ \A n \in 0 .. 3, t \in 0 .. MaxTime :
                 DocIndexCall(u, f, n, t).doc_id = call.doc_id
            /\ \/ index' = index
               \/ /\ Passports(index', ns, f) = {call.doc_id}
                  /\ index'[ns][call.doc_id].metadata["chunk_count"] =
                       call.metadata["chunk_count"]
                  /\ DOMAIN index'[ns] = DOMAIN index[ns] \cup {call.doc_id}
                  /\ \A id \in DOMAIN index[ns] \ {call.doc_id} :
                       index'[ns][id] = index[ns][id]]_vars
  /\ [](\A ns \in Namespaces, f \in Filenames : Cardinality(Passports(index, ns, f)) <= 1)

\* a save_doc_index for f1 has just written its passport at the second clock
\* value, next to the passport of f2 in the same namespace
C13_Witness ==
  /\ last.op = "smart_upsert_text" /\ last.via = "save_doc_index"
  /\ last.call.metadata["filename"] = "f1"
  /\ LET ns == last.call.namespace IN
       /\ Passports(index, ns, "f1") = {last.call.doc_id}
       /\ index[ns][last.call.doc_id].metadata["chunk_count"] = 2
       /\ index[ns][last.call.doc_id].metadata["timestamp"] = 2
       /\ Cardinality(Passports(index, ns, "f2")) = 1

----------------------------------------------------------------------------
\* the chunk loop of ingestion has just made a save (an ordinary save: no
\* doc_id is passed, the id is generated)
ChunkSaveStep ==
  /\ pc[1].stage = "ingesting"
  /\ pc'[1].stage = "ingesting"
  /\ Len(pc'[1].saved_texts) = Len(pc[1].saved_texts) + 1

\* C14: a save that returns action=created adds a record: its generated id was
\* not in the namespace before, the namespace grows by exactly that id, and
\* every record stored before is left as it was, also when several saves of
\* the same user and type are issued within one clock second.
C14_CreatedAddsRecord ==
  [][(ChunkSaveStep /\ last'.result.action = "created") =>
       LET ns == last'.call.namespace
           id == last'.call.doc_id
       IN /\ id \notin DOMAIN index[ns]
          /\ DOMAIN index'[ns] = DOMAIN index[ns] \cup {id}
          /\ Cardinality(DOMAIN index'[ns]) = Cardinality(DOMAIN index[ns]) + 1
          /\ \A other \in DOMAIN index[ns] : index'[ns][other] = index[ns][other]]_vars

----------------------------------------------------------------------------
\* a single save (MemoryManager.save or a direct smart_upsert_text) ran from
\* entry to return in this step
SingleSaveStep ==
  /\ calls' = calls + 1
  /\ last'.op = "smart_upsert_text"
  /\ last'.via \in {"save", "direct"}

\* the caller got a failure: an exception, or action=error from save
FailedResult(l) ==
  IF l.via = "save" THEN l.outcome = "returned" /\ l.result = ErrorResult
  ELSE l.outcome = "raised"

\* C15: when an embedding or index call fails during a single save, in the
\* duplicate check or in the write, the caller gets a failure (an exception
\* from smart_upsert_text, action=error from save), never created, updated or
\* skipped, and the index is exactly what it was before the call; a call in
\* which nothing failed never reports a failure.
C15_FailureAbortsSave ==
  [][SingleSaveStep =>
       /\ ~last'.ok =>
            /\ FailedResult(last')
            /\ last'.result.action \notin {"created", "updated", "skipped"}
            /\ index' = index
       /\ last'.ok =>
            /\ ~FailedResult(last')
            /\ last'.result.action \in {"created", "updated", "skipped"}]_vars

\* a save with the duplicate check failed although the namespace holds a
\* record its text would have merged into; the record is still there
C15_Witness ==
  /\ last.op = "smart_upsert_text" /\ last.via = "save"
  /\ ~last.ok
  /\ last.queries = 1
  /\ last.result = ErrorResult
  /\ \E id \in DOMAIN index[last.call.namespace] :
       Cosine(index[last.call.namespace][id].values, get_embedding(last.call.text))
         >= SIMILARITY_THRESHOLD_HIGH

----------------------------------------------------------------------------
\* C16: when an embedding or index call fails on one document of a batch save
\* with check_duplicates=true, the call still returns its statistics, with one
\* result entry per document, the failure recorded in the entry of the
\* document it hit.
C16_BatchFailureIsPerItem ==
  (last.op = "smart_upsert_documents" /\ last.check_duplicates /\ last.fail_at # 0) =>
    /\ last.outcome = "returned"
    /\ Len(last.stats.results) = Len(last.documents)
    /\ last.stats.results[last.fail_at].action = "error"
    /\ \A k \in DOMAIN last.stats.results :
         k # last.fail_at => last.stats.results[k].action \in {"created", "updated", "skipped"}

----------------------------------------------------------------------------
\* one smart_upsert_text call on index idx, run from entry to return with no
\* failure: every index and result it can produce
SingleSave(idx, call) ==
  {[index |-> SmartWrite(idx, call, p.cls).index,
    result |-> SmartWrite(idx, call, p.cls).result] : p \in SmartClassify(idx, call)}

\* the single saves of cs applied one after another, each to an index the
\* one before it left: acc is the set of <index, results so far>
RECURSIVE SavesInOrder(_, _)
SavesInOrder(acc, cs) ==
  IF cs = <<>> THEN acc
  ELSE SavesInOrder(UNION {{[index |-> o.index, results |-> Append(a.results, o.result)] :
                              o \in SingleSave(a.index, Head(cs))} : a \in acc},
                    Tail(cs))

\* how many of the results carry the action
CountOf(results, action) == Cardinality({k \in DOMAIN results : results[k].action = action})

\* a batch save with check_duplicates=true ran from entry to return in this step
CheckedBatchStep ==
  /\ calls' = calls + 1
  /\ last'.op = "smart_upsert_documents"
  /\ last'.check_duplicates

\* C17: a batch save with check_duplicates=true leaves the index that the
\* single-item saves of its documents leave when applied one after another in
\* list order, each against what the earlier ones wrote (up to the document
\* at which a call fails, if one does); when it returns, its results are the
\* results of those single saves, in order, and created, updated and skipped
\* are the numbers of results with that action and add up to total.
C17_BatchIsSequentialFold ==
  [][CheckedBatchStep =>
       LET l == last'
           m == IF l.fail_at = 0 THEN Len(l.documents) ELSE l.fail_at - 1
           cs == [k \in 1 .. m |-> DocCall(l.documents[k], l.namespace, l.update_if_duplicate)]
           fold == SavesInOrder({[index |-> index, results |-> <<>>]}, cs)
       IN /\ (l.outcome = "returned") <=> (l.fail_at = 0)
          /\ \E r \in fold :
               /\ index' = r.index
               /\ l.outcome = "returned" =>
                    /\ l.stats.results = r.results
                    /\ l.stats.total = Len(l.documents)
                    /\ l.stats.created = CountOf(r.results, "created")
                    /\ l.stats.updated = CountOf(r.results, "updated")
                    /\ l.stats.skipped = CountOf(r.results, "skipped")
                    /\ l.stats.created + l.stats.updated + l.stats.skipped = l.stats.total]_vars

\* the batch of the usage example: the third document duplicates the first,
\* which the same batch created, and is skipped against it
C17_Witness ==
  /\ last.op = "smart_upsert_documents" /\ last.check_duplicates
  /\ last.outcome = "returned"
  /\ ~last.update_if_duplicate
  /\ Len(last.documents) = 3
  /\ last.stats.results[1].action = "created"
  /\ last.stats.results[2].action = "created"
  /\ last.stats.results[3].action = "skipped"
  /\ last.stats.results[3].matched_id = last.documents[1].id
  /\ last.stats.created = 2 /\ last.stats.skipped = 1

----------------------------------------------------------------------------
\* C18: when an embedding or index call fails in a chunk save of ingestion or
\* in save_doc_index, the document is not reported as processed: the user is
\* told the processing failed, and a chunk whose save failed is not among the
\* chunks counted as saved.
C18_IngestionFailureSurfaced ==
  (/\ last.op = "process_document"
   /\ last.outcome = "returned"
   /\ (last.failed > 0 \/ ~last.passport_ok)) =>
    /\ last.reply = "failed"
    /\ last.failed = 0

----------------------------------------------------------------------------
\* the ids an explicit delete names: all of the namespace, the listed ids, or
\* the records its filter matches
Named(idx, l) ==
  IF l.args.delete_all THEN DOMAIN idx[l.namespace]
  ELSE IF l.args.ids # {} THEN l.args.ids
  ELSE {id \in DOMAIN idx[l.namespace] : PassesFilter(idx[l.namespace][id], l.args.flt)}

\* C19: an id leaves a namespace only in a step that is an explicit delete on
\* that namespace (namespace-wide, by id list or by filter) and only if that
\* delete names it; a save, a passport save, a batch save, a classification
\* and a read remove nothing.
C19_OnlyDeleteRemoves ==
  [][\A ns \in Namespaces :
       \A id \in DOMAIN index[ns] :
         id \notin DOMAIN index'[ns] =>
           /\ last'.op = "delete"
           /\ last'.namespace = ns
           /\ id \in Named(index, last')]_vars

\* a record written by an earlier save is still there after a batch save
\* that wrote other ids
C19_Witness ==
  /\ last.op = "smart_upsert_documents"
  /\ last.outcome = "returned"
  /\ \E id \in DOMAIN index[last.namespace] :
       /\ \A k \in DOMAIN last.documents : last.documents[k].id # id
       /\ index[last.namespace][id].metadata["text"] \in {"a", "a1"}

----------------------------------------------------------------------------
\* C20: every stored record's vector is the embedding of the text in its
\* metadata, after created saves and after duplicate-merges alike.
C20_TextMatchesVector ==
  \A ns \in Namespaces :
    \A id \in DOMAIN index[ns] :
      /\ "text" \in DOMAIN index[ns][id].metadata
      /\ index[ns][id].values = get_embedding(index[ns][id].metadata["text"])

----------------------------------------------------------------------------
\* a save or save_doc_index call returned in this step
ManagerSaveStep ==
  /\ calls' = calls + 1
  /\ last'.op = "smart_upsert_text"
  /\ last'.via \in {"save", "save_doc_index"}

\* C21: every record written through save or save_doc_index carries the
\* requested type and a timestamp, whatever metadata the caller passed; the
\* timestamp is the clock at which the record was created and no later
\* operation on the record changes it.
C21_TypeAndCreationTimestamp ==
  /\ [](\A ns \in Namespaces : \A id \in DOMAIN index[ns] :
          {"type", "timestamp"} \subseteq DOMAIN index[ns][id].metadata)
  /\ [][\A ns \in Namespaces : \A id \in DOMAIN index'[ns] :
          LET created == /\ ManagerSaveStep
                         /\ last'.ok
                         /\ last'.call.namespace = ns
                         /\ last'.call.doc_id = id
                         /\ last'.via = "save" => last'.result.action = "created"
          IN IF created
             THEN /\ index'[ns][id].metadata["type"] = last'.call.metadata["type"]
                  /\ index'[ns][id].metadata["timestamp"] = now
             ELSE id \in DOMAIN index[ns] =>
                    index'[ns][id].metadata["timestamp"] = index[ns][id].metadata["timestamp"]]_vars

----------------------------------------------------------------------------
\* a save that ran its duplicate check returned a result in this step
CheckedSaveReturned ==
  /\ last'.op = "smart_upsert_text"
  /\ last' # last
  /\ last'.via \in {"save", "direct"}
  /\ last'.ok
  /\ last'.call.check_duplicates

----------------------------------------------------------------------------
\* a classification, a retrieve or a document list returned or raised in
\* this step
ReadStep ==
  /\ last' # last
  /\ last'.op \in {"check_similarity", "retrieve", "list_indexed_documents"}

\* C23: check_similarity, retrieve on both paths and list_indexed_documents
\* leave the index exactly as it was, whether the call succeeds or fails.
C23_ReadsDoNotWrite ==
  [][ReadStep => index' = index]_vars

\* a retrieve on the normal path failed on a namespace that holds records,
\* after reads of the other kinds are possible from the same index
C23_Witness ==
  /\ last.op = "retrieve"
  /\ last.path = "normal"
  /\ last.outcome = "raised"
  /\ Cardinality(DOMAIN index[last.namespace]) >= 2

----------------------------------------------------------------------------
\* the positions of the records of memories that are (doc = TRUE) or are not
\* (doc = FALSE) of type doc_chunk, in increasing order
PositionsOf(memories, doc) ==
  LET P == {i \in DOMAIN memories : (memories[i].type = "doc_chunk") = doc}
  IN CHOOSE s \in [1 .. Cardinality(P) -> P] :
       \A j, k \in 1 .. Cardinality(P) : j < k => s[j] < s[k]

\* the line starts with the number of record i and its text
LineOf(line, memories, i) ==
  LET head == Str(i) \o ". " \o memories[i].text
  IN Len(line) >= Len(head) /\ SubSeq(line, 1, Len(head)) = head

\* C24: format_for_context returns "" for an empty list; otherwise its lines
\* are a delimited document section with exactly the doc_chunk records, then a
\* delimited message section with exactly all the other records, each in
\* input order, a section being left out when it has no members; every input
\* record has its line in exactly one of the two.
C24_FormatTwoSections ==
  (last.op = "format_for_context") =>
    LET ms == last.memories
        parts == last.parts
        d == PositionsOf(ms, TRUE)
        o == PositionsOf(ms, FALSE)
        D == Len(d)
        O == Len(o)
        dlen == IF D > 0 THEN D + 2 ELSE 0
        olen == IF O > 0 THEN O + 2 ELSE 0
    IN /\ (ms = <<>>) <=> (last.result = "")
       /\ last.result = Join(parts, "\n")
       /\ Len(parts) = dlen + olen
       /\ D > 0 => /\ parts[1] = DocHeader
                   /\ parts[D + 2] = DocFooter
                   /\ \A j \in 1 .. D : LineOf(parts[1 + j], ms, d[j])
       /\ O > 0 => /\ parts[dlen + 1] = MsgHeader
                   /\ parts[dlen + O + 2] = MsgFooter
                   /\ \A j \in 1 .. O : parts[dlen + 1 + j] =
                                            Str(o[j]) \o ". " \o ms[o[j]].text
       /\ D + O = Len(ms)

\* a fact, a chunk and a message were formatted: the chunk alone in the
\* document section, the fact and the message after it in input order
C24_Witness ==
  /\ last.op = "format_for_context"
  /\ Len(last.memories) = 3
  /\ last.memories[1].type = "fact"
  /\ last.memories[2].type = "doc_chunk"
  /\ last.memories[3].type = "message"
  /\ Len(last.parts) = 7
  /\ last.parts[2] = "2. a2  [f1, p. 1, h]"
  /\ last.parts[5] = "1. q"
  /\ last.parts[6] = "3. a"

----------------------------------------------------------------------------
\* the chunk records stored for a filename in a namespace
ChunksOf(idx, ns, filename) ==
  {id \in DOMAIN idx[ns] :
     /\ Get(idx[ns][id].metadata, "type", NoneStr) = "doc_chunk"
     /\ Get(idx[ns][id].metadata, "filename", NoneStr) = filename}

\* C25: after process has run, with every save succeeding, for the first file
\* uploaded (so the namespace held no chunk of it before), the namespace holds
\* one doc_chunk record per non-empty chunk of the file and the passport's
\* chunk_count is that number.
C25_OneRecordPerChunk ==
  (/\ last.op = "process_document"
   /\ last.outcome = "returned"
   /\ last.failed = 0 /\ last.passport_ok
   /\ calls = 1) =>
    LET ns == get_namespace(last.user_id)
        N == Len(last.chunks)
    IN /\ Cardinality(ChunksOf(index, ns, last.filename)) = N
       /\ Passports(index, ns, last.filename) = {PassportId(last.user_id, last.filename)}
       /\ index[ns][PassportId(last.user_id, last.filename)].metadata["chunk_count"] = N

----------------------------------------------------------------------------
\* a save of an ordinary message (type message, duplicate check on) returned
\* in this step
MessageSaveStep ==
  /\ last' # last
  /\ last'.op = "smart_upsert_text"
  /\ last'.via = "save"
  /\ last'.call.metadata["type"] = "message"
  /\ last'.call.check_duplicates

\* C26: saving an ordinary message leaves every doc_chunk and doc_index record
\* of the namespace as it was (type, text and all), also when the message
\* scores at or above the high threshold against such a record.
C26_MessageSaveKeepsDocuments ==
  [][MessageSaveStep =>
       \A ns \in Namespaces : \A id \in DOMAIN index[ns] :
         Get(index[ns][id].metadata, "type", NoneStr) \in {"doc_chunk", "doc_index"} =>
           /\ id \in DOMAIN index'[ns]
           /\ index'[ns][id] = index[ns][id]]_vars

\* what each user's session history holds (nothing when there is none)
EntriesOf(h) == [u \in Users |-> h[u].entries]

\* a step of the _on_text handler that thread th is in
OnTextStep(th) == pc[th] # Idle /\ pc'[th] # pc[th]

\* C27: a message's handler changes the index only after its retrieval has
\* completed and its reply was sent, it changes the session history only
\* after the reply was sent, and a handler whose reply raises ends without
\* having changed either.
C27_ReplyBeforeHistoryAndSave ==
  [][\A th \in Threads :
       OnTextStep(th) =>
         /\ index' # index => pc[th].retrieved /\ pc[th].replied
         /\ EntriesOf(histories') # EntriesOf(histories) => pc[th].replied
         /\ (pc[th].stage = "replying" /\ pc'[th] = Idle) =>
              /\ index' = index
              /\ histories' = histories
              /\ last'.appended = 0]_vars

\* user → assistant → user → ... : entry i has the role its position asks for
Alternates(entries) ==
  \A i \in 1 .. Len(entries) :
    entries[i].role = IF i % 2 = 1 THEN "user" ELSE "assistant"

\* C28: whenever no handler is between its two appends for the user, the
\* user's session history holds at most 20 entries, alternating user and
\* assistant entries and starting with a user entry.
C28_HistoryAlternates ==
  \A u \in Users :
    (\A th \in Threads : ~(pc[th].stage = "appended_user" /\ pc[th].user_id = u)) =>
      /\ Len(histories[u].entries) <= MAX_HISTORY_MESSAGES
      /\ Alternates(histories[u].entries)

\* a step in which _on_clear_callback ran
ClearStep ==
  /\ last'.op = "clear_callback"
  /\ pc' = pc
  /\ calls' = calls

\* C29: a clear callback changes the index or a history only when it is a
\* confirmation pressed by the user whose id the callback data carries, and
\* then it removes only that user's namespace and history; a cancellation or
\* a press by somebody else changes nothing.
C29_ClearOnlyOwnMemory ==
  [][ClearStep =>
       LET l == last' IN
       /\ (index' # index \/ histories' # histories) =>
            /\ l.data = "clear_confirm_" \o Str(l.presser)
            /\ \A ns \in DOMAIN index :
                 ns # get_namespace(l.presser) => index'[ns] = index[ns]
            /\ \A u \in Users : u # l.presser => histories'[u] = histories[u]
       /\ l.outcome = "cleared" =>
            /\ Ids(index', get_namespace(l.presser)) = {}
            /\ histories'[l.presser] = NoHistory
       /\ l.outcome \in {"cancelled", "wrong_user", "error"} =>
            index' = index /\ histories' = histories]_vars

\* a user has cleared their memory while the other user kept records and a
\* history
C29_Witness ==
  /\ last.op = "clear_callback"
  /\ last.outcome = "cleared"
  /\ \E u \in Users :
       /\ u # last.presser
       /\ Ids(index, get_namespace(u)) # {}
       /\ histories[u].entries # <<>>

\* the smaller of two numbers
Smaller(a, b) == IF a < b THEN a ELSE b

\* the matches that are not document passports, in the order returned
NonPassportMatches(matches) == SelectSeq(matches, AllKeep)

====
